---- MODULE Spec2Model ----
(***************************************************************************)
(* Model of the dcgm-exporter reload coordinator (pkg/cmd/app.go) and of   *)
(* the collector registry (package registry).                              *)
(*                                                                         *)
(* Threads of the model:                                                   *)
(*   "sig"   the main goroutine: the signal loop of                        *)
(*           StartDCGMExporterWithSignalSource (SIGHUP -> hotReload), and  *)
(*           the shutdown sequence after it                                *)
(*   "file"  the file-watcher goroutine (onChange -> hotReload)            *)
(*   "gpu"   the GPU bind/unbind watcher goroutine                         *)
(*           (onChange -> handleGPUTopologyChange)                         *)
(*   1..NumScrapers  HTTP handlers of /metrics (GetRegistry -> Gather)     *)
(*                                                                         *)
(* Every load or store of a shared atomic, every lock operation and every  *)
(* call into the device library is a step of its own, so the               *)
(* interleavings of the goroutines are the interleavings of the model.     *)
(* The locals of a call are dropped when the call returns.                 *)
(*                                                                         *)
(* Three specifications share Init and the actions:                        *)
(*   Spec        the reload coordinator: the three reload threads, the     *)
(*               clock, the counters file and the shutdown sequence        *)
(*   SpecScrape  the scrape path against the reloads: the /metrics         *)
(*               handlers and the reloads triggered by SIGHUP and by GPU   *)
(*               events, all at one instant of the clock                   *)
(*   SpecDrain   the /metrics handlers against the reloads triggered by    *)
(*               SIGHUP with the clock running, so that Registry.Cleanup   *)
(*               can give up its wait while a gather is active             *)
(*                                                                         *)
(* The components that run on their own are modelled one at a time: the    *)
(* variable `part` names the one a behaviour runs, and each keeps its      *)
(* state in one record (srv, gth, fw, gw, tw, lbl, wu, lc, col, pm, rl):   *)
(*   SpecParts      the registry pointer of the metrics server, the        *)
(*                  fan-out of Gather, FileWatcher.Watch,                  *)
(*                  GPUBindUnbindWatcher.Watch, WatchTopologyChanges, and  *)
(*                  one gather of a collector with the transformation      *)
(*                  pipeline run over it, the weighted utilization, the    *)
(*                  pod label filter cache, the conversion of field        *)
(*                  values into samples, the Process-Mapper, and the rate  *)
(*                  limit of the reloads with the requests one at a time   *)
(*   SpecPartsFair  SpecParts with the ctx.Done case of the two watchers'  *)
(*                  select loops taken when it stays ready                 *)
(*                                                                         *)
(* Time.  `now` is the wall clock in ticks since the Unix epoch,            *)
(* TicksPerSecond ticks to the second.  The nanosecond of                  *)
(* time.Now().UnixNano() is scaled to NanosPerTick units per tick so that   *)
(* the values fit the model checker's integers; the two readers of          *)
(* lastReloadTime convert the stored integer exactly as the code does       *)
(* (time.Unix(v, 0) in hotReload, time.Unix(0, v) in                        *)
(* handleGPUTopologyChange).                                                *)
(***************************************************************************)
EXTENDS Integers, Sequences, FiniteSets, TLC

\* ---------------------------------------------------------------- bounds
TicksPerSecond == 2      \* resolution of the model's clock
NanosPerTick == 5        \* scaled number of UnixNano units in one tick
BootTime == 20           \* wall clock (ticks) when the exporter starts
MaxElapsed == 4          \* the clock stops MaxElapsed ticks after BootTime
MaxTriggers == 2         \* reload triggers (SIGHUP, file change, GPU event)
NumScrapers == 1         \* concurrent /metrics requests
MaxServerOps == 4        \* calls made on one MetricsServer
NumCollectors == 3       \* collectors registered in the registry that is gathered
MaxWatchTime == 5        \* the file watcher's clock runs from 0 to MaxWatchTime
MaxFsEvents == 3         \* filesystem events delivered to the file watcher
MaxWrites == 2           \* modifications of the watched file
MaxSamples == 3          \* new samples of the bind/unbind field after the watcher starts
MaxPolls == 3            \* ticks of the GPU watcher's ticker
MaxEventValue == 3       \* the bind/unbind field takes the values 0..MaxEventValue
NumUUIDs == 2            \* distinct GPU UUIDs (ordered as their strings are)
MaxGPUs == 3             \* length of a UUID list
MaxPodsPerDevice == 2    \* pods that share one device
NumLabelKeys == 3        \* distinct pod label keys looked up
MaxPatterns == 2         \* allow-list patterns configured
MaxCacheSize == 2        \* configured KubernetesPodLabelCacheSize, 0..MaxCacheSize
MaxLookups == 4          \* calls of shouldIncludeLabel
MaxFieldValues == 2      \* values the device library returns for one entity
MaxPmSamples == 2        \* samples in the gather the Process-Mapper gets
MaxProcesses == 2        \* processes the NVML library reports
MaxParents == 2          \* GPUs, switches or CPUs of one watch list
MaxMembers == 3          \* watched links or cores (or entities) of one of them
DCGM_GROUP_MAX_ENTITIES == 2   \* the library's group size, scaled down
NumGpus == 2             \* physical GPUs of the weighted-utilization gather
MaxWuEntities == 2       \* monitored entities (GPUs and MIG instances) of it
NumEntities == 2         \* monitored GPUs of one collector
MaxTopoPolls == 6        \* polls of WatchTopologyChanges

\* ------------------------------------------------------ program constants
MinReloadIntervalSec == 2    \* minReloadInterval = 2 * time.Second
MaxWaitSec == 2              \* maxWaitTime := 2 * time.Second
debounceDelay == 2           \* debounceDelay: 200 * time.Millisecond, in ticks of 100 ms
DefaultCacheSize == 150000   \* cacheSize = 150000
maxConsecutiveFailures == 3  \* const maxConsecutiveFailures = 3

minReloadInterval == MinReloadIntervalSec * TicksPerSecond
maxWaitTime == MaxWaitSec * TicksPerSecond

Nil == -1                    \* Go's nil for a *Registry
HotThreads == {"sig", "file"}
Reloaders == {"sig", "file", "gpu"}
Scrapers == 1..NumScrapers
RegIds == 0..(2 * MaxTriggers)

VARIABLES
    now,                       \* wall clock, ticks
    proc,                      \* "running" | "stopping" | "stopped" | "exited" | "crashed"
    enableGPUWatch,            \* config.EnableGPUBindUnbindWatch
    profilingOK,               \* GetSupportedMetricGroups(0) succeeds on this host
    fileOK,                    \* counters.GetCounterSet can load the counters file
    fileVersion,               \* the counters file's mtime, as an edit count
    watcherSeen,               \* FileWatcher.lastModTime
    triggers,                  \* reload triggers delivered so far
    \* --- reload coordinator (package-level atomics of app.go, MetricsServer)
    reloadInProgress,          \* MetricsServer reload flag
    serverRegistry,            \* MetricsServer.registry (atomic pointer), Nil or id
    lastReloadTime,            \* atomic.Int64
    hotReloadCounter,          \* atomic.Uint64
    pendingGPUTopologyChange,  \* atomic.Bool
    libGen,                    \* dcgmprovider: number of Initialize calls
    libUp,                     \* dcgmprovider: initialized and not cleaned up
    \* --- registries, by id
    nextReg,                   \* id of the next registry NewRegistry returns
    regConf,                   \* what the registry was built from
    shuttingDown,              \* Registry.shuttingDown
    activeGathers,             \* Registry.activeGathers
    readers,                   \* Registry.mtx: read locks held
    writer,                    \* Registry.mtx: "none" | "waiting" | "held"
    cleanups,                  \* times the registry's collectors were cleaned up
    superseded,                \* history: replaced by a reload that has published
    \* --- reload threads
    pc,                        \* position of each reload thread
    loc,                       \* locals of the call the thread is in
    panicked,                  \* the last callback panicked
    result,                    \* what the last hotReload call returned
    \* --- history
    tooSoon,                   \* a hot reload ran less than minReloadInterval after lastHotAt
    lastHotAt,                 \* when the last hot reload that published was requested
    lastClearFailed,           \* a reload cleared the registry and published none
    exitCause,                 \* what ended the process
    \* --- scrapers
    spc, sreg, sres, sLate,    \* position, registry, result, history flag
    \* --- the parts of the exporter that are checked on their own
    part,                      \* which part this behaviour runs ("app": the exporter)
    srv,                       \* a MetricsServer under concurrent callers
    gth,                       \* one Registry.Gather over its collectors
    fw,                        \* a FileWatcher inside Watch
    gw,                        \* a GPUBindUnbindWatcher inside Watch
    tw,                        \* WatchTopologyChanges
    lbl,                       \* one gather result through the transformations
    wu,                        \* one gather's values through Weighted-Util
    lc,                        \* the pod mapper's label filter and its cache
    col,                       \* one entity's values through the collector
    pm,                        \* one gather through ProcessMapper
    rl,                        \* the rate limit of the reloads, one request at a time
    dw,                        \* one watch list of the DeviceWatcher
    mg                         \* the merge of the collectors' results in one Gather

envVars == <<now, proc, enableGPUWatch, profilingOK, fileOK, fileVersion,
            watcherSeen, triggers>>
coordVars == <<reloadInProgress, serverRegistry, lastReloadTime, hotReloadCounter,
               pendingGPUTopologyChange, libGen, libUp>>
regVars == <<nextReg, regConf, shuttingDown, activeGathers, readers, writer,
             cleanups, superseded>>
thVars == <<pc, loc, panicked, result>>
histVars == <<tooSoon, lastHotAt, lastClearFailed, exitCause>>
scrVars == <<spc, sreg, sres, sLate>>
appVars == <<envVars, coordVars, regVars, thVars, histVars, scrVars>>
oldParts == <<srv, gth, fw, gw, tw, lbl>>
newParts == <<wu, lc, col, pm, rl, dw, mg>>
partVars == <<part, oldParts, newParts>>
vars == <<appVars, partVars>>

\* ------------------------------------------------------------ configuration
\* contextToConfig: a fresh Config from the CLI context; CollectDCP is set to
\* true and MetricGroups is left at its zero value (nil).
contextToConfig == [dcp |-> TRUE, groups |-> FALSE]

\* queryDCPMetrics: overwrites CollectDCP and MetricGroups from the outcome of
\* GetSupportedMetricGroups(0) (an error or a recovered panic disables both).
queryDCPMetrics(cfg, ok) == [cfg EXCEPT !.dcp = ok, !.groups = ok]

\* What a registry was built from: the config, the counters file, the library.
BuiltFrom(cfg) == [dcp |-> cfg.dcp, groups |-> cfg.groups,
                   file |-> fileVersion, lib |-> libGen]

NoConf == [dcp |-> FALSE, groups |-> FALSE, file |-> Nil, lib |-> Nil]

\* The locals of a reload thread outside any call.
NoLocals == [nested |-> FALSE, oldRegistry |-> Nil, newRegistry |-> Nil,
             now |-> 0, startTime |-> 0, config |-> contextToConfig,
             steps |-> <<>>, sawPending |-> FALSE]

\* ------------------------------------------------------------------- Init
\* The state after StartDCGMExporterWithSignalSource has initialised the
\* library, queried the profiling groups (queryDCPMetrics(config, 0)), built
\* and published the initial registry (id 0) and started the server and the
\* watchers.
AppInit ==
    /\ now = BootTime
    /\ proc = "running"
    /\ enableGPUWatch \in BOOLEAN
    /\ profilingOK \in BOOLEAN
    /\ fileOK = TRUE
    /\ fileVersion = 0
    /\ watcherSeen = 0
    /\ triggers = 0
    /\ reloadInProgress = FALSE
    /\ serverRegistry = 0
    /\ lastReloadTime = 0
    /\ hotReloadCounter = 0
    /\ pendingGPUTopologyChange = FALSE
    /\ libGen = 1
    /\ libUp = TRUE
    /\ nextReg = 1
    /\ regConf = [r \in RegIds |->
                    IF r = 0
                    THEN [dcp |-> queryDCPMetrics(contextToConfig, profilingOK).dcp,
                          groups |-> queryDCPMetrics(contextToConfig, profilingOK).groups,
                          file |-> 0, lib |-> 1]
                    ELSE NoConf]
    /\ shuttingDown = [r \in RegIds |-> FALSE]
    /\ activeGathers = [r \in RegIds |-> 0]
    /\ readers = [r \in RegIds |-> 0]
    /\ writer = [r \in RegIds |-> "none"]
    /\ cleanups = [r \in RegIds |-> 0]
    /\ superseded = [r \in RegIds |-> FALSE]
    /\ pc = [t \in Reloaders |-> "idle"]
    /\ loc = [t \in Reloaders |-> NoLocals]
    /\ panicked = [t \in Reloaders |-> FALSE]
    /\ result = [t \in Reloaders |-> "none"]
    /\ tooSoon = FALSE
    /\ lastHotAt = Nil
    /\ lastClearFailed = FALSE
    /\ exitCause = <<"none", "none", "none">>
    /\ spc = [s \in Scrapers |-> "idle"]
    /\ sreg = [s \in Scrapers |-> Nil]
    /\ sres = [s \in Scrapers |-> "none"]
    /\ sLate = [s \in Scrapers |-> FALSE]

Alive == proc \notin {"exited", "crashed"}

\* --------------------------------------------------------------- the clock
Tick ==
    /\ Alive
    /\ now < BootTime + MaxElapsed
    /\ now' = now + 1
    /\ UNCHANGED <<proc, enableGPUWatch, profilingOK, fileOK, fileVersion,
                   watcherSeen, triggers, coordVars, regVars, thVars, histVars,
                   scrVars>>
    /\ UNCHANGED partVars

\* ------------------------------------------------------- Registry.Gather
\* A faulty variant of IsShuttingDown: the flag is never seen (C1 depends on
\* the real one).
C1_FlagUnseen(r) == FALSE

\* r.shuttingDown.Load()
IsShuttingDown(r) == shuttingDown[r]

\* The /metrics handler loads the current registry; with none stored it
\* serves an empty document.
ScrapeStart(s) ==
    /\ proc \in {"running", "stopping"}
    /\ spc[s] = "idle"
    /\ IF serverRegistry = Nil
       THEN /\ sres' = [sres EXCEPT ![s] = "empty"]
            /\ UNCHANGED <<spc, sreg>>
       ELSE /\ sreg' = [sreg EXCEPT ![s] = serverRegistry]
            /\ spc' = [spc EXCEPT ![s] = "s_call"]
            /\ sres' = [sres EXCEPT ![s] = "none"]
    /\ sLate' = [sLate EXCEPT ![s] = FALSE]
    /\ UNCHANGED <<envVars, coordVars, regVars, thVars, histVars>>
    /\ UNCHANGED partVars

\* The handler calls Gather() on the registry it loaded.
GatherCall(s) ==
    /\ Alive
    /\ spc[s] = "s_call"
    /\ sLate' = [sLate EXCEPT ![s] = shuttingDown[sreg[s]]]
    /\ spc' = [spc EXCEPT ![s] = "g_check1"]
    /\ UNCHANGED <<sreg, sres, envVars, coordVars, regVars, thVars, histVars>>
    /\ UNCHANGED partVars

\* if r.shuttingDown.Load() { return nil, ErrRegistryShuttingDown }
GatherCheck1(s) ==
    /\ Alive
    /\ spc[s] = "g_check1"
    /\ IF IsShuttingDown(sreg[s])
       THEN /\ spc' = [spc EXCEPT ![s] = "idle"]
            /\ sres' = [sres EXCEPT ![s] = "shutdown"]
            /\ sreg' = [sreg EXCEPT ![s] = Nil]
       ELSE /\ spc' = [spc EXCEPT ![s] = "g_inc"]
            /\ UNCHANGED <<sres, sreg>>
    /\ UNCHANGED <<sLate, envVars, coordVars, regVars, thVars, histVars>>
    /\ UNCHANGED partVars

\* r.activeGathers.Add(1)
GatherInc(s) ==
    /\ Alive
    /\ spc[s] = "g_inc"
    /\ activeGathers' = [activeGathers EXCEPT ![sreg[s]] = @ + 1]
    /\ spc' = [spc EXCEPT ![s] = "g_rlock"]
    /\ UNCHANGED <<sreg, sres, sLate, envVars, coordVars, thVars, histVars,
                   nextReg, regConf, shuttingDown, readers, writer, cleanups,
                   superseded>>
    /\ UNCHANGED partVars

\* r.mtx.RLock(): blocks while a writer holds or waits for the lock
GatherRLock(s) ==
    /\ Alive
    /\ spc[s] = "g_rlock"
    /\ writer[sreg[s]] = "none"
    /\ readers' = [readers EXCEPT ![sreg[s]] = @ + 1]
    /\ spc' = [spc EXCEPT ![s] = "g_check2"]
    /\ UNCHANGED <<sreg, sres, sLate, envVars, coordVars, thVars, histVars,
                   nextReg, regConf, shuttingDown, activeGathers, writer, cleanups,
                   superseded>>
    /\ UNCHANGED partVars

\* The double check of the flag under the read lock; when it passes, the
\* fan-out starts: every collector's GetMetrics is called.
GatherCheck2(s) ==
    /\ Alive
    /\ spc[s] = "g_check2"
    /\ IF IsShuttingDown(sreg[s])
       THEN /\ spc' = [spc EXCEPT ![s] = "g_runlock"]
            /\ sres' = [sres EXCEPT ![s] = "shutdown"]
       ELSE /\ spc' = [spc EXCEPT ![s] = "g_collect"]
            /\ UNCHANGED sres
    /\ UNCHANGED <<sreg, sLate, envVars, coordVars, regVars, thVars, histVars>>
    /\ UNCHANGED partVars

\* g.Wait(): the collectors have returned, with metrics or with an error
GatherWait(s) ==
    /\ Alive
    /\ spc[s] = "g_collect"
    /\ \E out \in {"metrics", "error"} : sres' = [sres EXCEPT ![s] = out]
    /\ spc' = [spc EXCEPT ![s] = "g_runlock"]
    /\ UNCHANGED <<sreg, sLate, envVars, coordVars, regVars, thVars, histVars>>
    /\ UNCHANGED partVars

\* deferred r.mtx.RUnlock()
GatherRUnlock(s) ==
    /\ Alive
    /\ spc[s] = "g_runlock"
    /\ readers' = [readers EXCEPT ![sreg[s]] = @ - 1]
    /\ spc' = [spc EXCEPT ![s] = "g_dec"]
    /\ UNCHANGED <<sreg, sres, sLate, envVars, coordVars, thVars, histVars,
                   nextReg, regConf, shuttingDown, activeGathers, writer, cleanups,
                   superseded>>
    /\ UNCHANGED partVars

\* A faulty variant of GatherDec: Gather returns without the decrement.
C36_NoDecrement(s) ==
    /\ Alive
    /\ spc[s] = "g_dec"
    /\ spc' = [spc EXCEPT ![s] = "idle"]
    /\ sreg' = [sreg EXCEPT ![s] = Nil]
    /\ UNCHANGED <<sres, sLate, envVars, coordVars, thVars, histVars, regVars>>
    /\ UNCHANGED partVars

\* deferred r.activeGathers.Add(-1); Gather returns
GatherDec(s) ==
    /\ Alive
    /\ spc[s] = "g_dec"
    /\ activeGathers' = [activeGathers EXCEPT ![sreg[s]] = @ - 1]
    /\ spc' = [spc EXCEPT ![s] = "idle"]
    /\ sreg' = [sreg EXCEPT ![s] = Nil]
    /\ UNCHANGED <<sres, sLate, envVars, coordVars, thVars, histVars,
                   nextReg, regConf, shuttingDown, readers, writer, cleanups,
                   superseded>>
    /\ UNCHANGED partVars

\* ------------------------------------------------------ Registry.Cleanup
\* Where the caller of Cleanup continues: the shutdown path of the main
\* goroutine, handleGPUTopologyChange, or hotReload.
AfterCleanup(t) ==
    IF t = "sig" /\ proc = "stopped" THEN "x_exit"
    ELSE IF t = "gpu" \/ loc[t].nested THEN "t_libcleanup"
    ELSE "h_build"

\* Where a panic that unwinds out of a reload step lands first: the deferred
\* SetReloadInProgress(false) of the function that registered it.
UnwindTo(t) ==
    IF t = "gpu" \/ loc[t].nested THEN "t_unset" ELSE "h_unset"

\* r.shuttingDown.Store(true); startTime := time.Now()
CleanupSet(t) ==
    /\ Alive
    /\ pc[t] = "c_set"
    /\ shuttingDown' = [shuttingDown EXCEPT ![loc[t].oldRegistry] = TRUE]
    /\ loc' = [loc EXCEPT ![t].startTime = now]
    /\ pc' = [pc EXCEPT ![t] = "c_poll"]
    /\ UNCHANGED <<envVars, coordVars, scrVars, histVars, panicked, result,
                   nextReg, regConf, activeGathers, readers, writer, cleanups,
                   superseded>>
    /\ UNCHANGED partVars

\* The polling loop ends when no gather is active, or when maxWaitTime has
\* elapsed (the iterations that only sleep change nothing).
CleanupPoll(t) ==
    /\ Alive
    /\ pc[t] = "c_poll"
    /\ \/ activeGathers[loc[t].oldRegistry] = 0
       \/ now - loc[t].startTime >= maxWaitTime
    /\ loc' = [loc EXCEPT ![t].startTime = 0]
    /\ pc' = [pc EXCEPT ![t] = "c_lockreq"]
    /\ UNCHANGED <<envVars, coordVars, regVars, scrVars, histVars, panicked,
                   result>>
    /\ UNCHANGED partVars

\* r.mtx.Lock(), first half: the writer announces itself; new readers block
CleanupLockReq(t) ==
    /\ Alive
    /\ pc[t] = "c_lockreq"
    /\ writer[loc[t].oldRegistry] = "none"
    /\ writer' = [writer EXCEPT ![loc[t].oldRegistry] = "waiting"]
    /\ pc' = [pc EXCEPT ![t] = "c_lock"]
    /\ UNCHANGED <<envVars, coordVars, scrVars, histVars, loc, panicked, result,
                   nextReg, regConf, shuttingDown, activeGathers, readers,
                   cleanups, superseded>>
    /\ UNCHANGED partVars

\* A faulty variant of CleanupLock: the lock is taken while readers hold it.
C29_LockOverReaders(t) ==
    /\ Alive
    /\ pc[t] = "c_lock"
    /\ writer' = [writer EXCEPT ![loc[t].oldRegistry] = "held"]
    /\ pc' = [pc EXCEPT ![t] = "c_clean"]
    /\ UNCHANGED <<envVars, coordVars, scrVars, histVars, loc, panicked, result,
                   nextReg, regConf, shuttingDown, activeGathers, readers,
                   cleanups, superseded>>
    /\ UNCHANGED partVars

\* r.mtx.Lock(), second half: acquired once every reader has left
CleanupLock(t) ==
    /\ Alive
    /\ pc[t] = "c_lock"
    /\ readers[loc[t].oldRegistry] = 0
    /\ writer' = [writer EXCEPT ![loc[t].oldRegistry] = "held"]
    /\ pc' = [pc EXCEPT ![t] = "c_clean"]
    /\ UNCHANGED <<envVars, coordVars, scrVars, histVars, loc, panicked, result,
                   nextReg, regConf, shuttingDown, activeGathers, readers,
                   cleanups, superseded>>
    /\ UNCHANGED partVars

\* c.Cleanup() on every collector of the registry; the deferred
\* r.mtx.Unlock(); Cleanup returns to its caller
CleanupCollectors(t) ==
    /\ Alive
    /\ pc[t] = "c_clean"
    /\ cleanups' = [cleanups EXCEPT ![loc[t].oldRegistry] = @ + 1]
    /\ writer' = [writer EXCEPT ![loc[t].oldRegistry] = "none"]
    /\ loc' = [loc EXCEPT ![t].steps = Append(@, "drain")]
    /\ pc' = [pc EXCEPT ![t] = AfterCleanup(t)]
    /\ UNCHANGED <<envVars, coordVars, scrVars, histVars, panicked, result,
                   nextReg, regConf, shuttingDown, activeGathers, readers,
                   superseded>>
    /\ UNCHANGED partVars

\* A collector's Cleanup panics inside Registry.Cleanup during a reload: the
\* deferred r.mtx.Unlock() runs and the panic unwinds into the reload.
CleanupPanic(t) ==
    /\ Alive
    /\ pc[t] = "c_clean"
    /\ proc # "stopped"
    /\ writer' = [writer EXCEPT ![loc[t].oldRegistry] = "none"]
    /\ panicked' = [panicked EXCEPT ![t] = TRUE]
    /\ lastClearFailed' = TRUE
    /\ pc' = [pc EXCEPT ![t] = UnwindTo(t)]
    /\ UNCHANGED <<envVars, coordVars, scrVars, loc, result, tooSoon, lastHotAt,
                   exitCause, nextReg, regConf, shuttingDown, activeGathers,
                   readers, cleanups, superseded>>
    /\ UNCHANGED partVars

\* ------------------------------------------------------------- triggers
\* A callback starts on reload thread t.
StartCall(t, first) ==
    /\ pc' = [pc EXCEPT ![t] = first]
    /\ loc' = [loc EXCEPT ![t] = NoLocals]
    /\ panicked' = [panicked EXCEPT ![t] = FALSE]
    /\ result' = [result EXCEPT ![t] = "none"]

\* sig == syscall.SIGHUP in the signal loop
Sighup ==
    /\ proc = "running"
    /\ pc["sig"] = "idle"
    /\ triggers < MaxTriggers
    /\ triggers' = triggers + 1
    /\ StartCall("sig", "h_check")
    /\ UNCHANGED <<now, proc, enableGPUWatch, profilingOK, fileOK, fileVersion,
                   watcherSeen, coordVars, regVars, histVars, scrVars>>
    /\ UNCHANGED partVars

\* The counters file is rewritten (its mtime changes); the new content may or
\* may not be loadable.
EditFile ==
    /\ proc = "running"
    /\ triggers < MaxTriggers
    /\ watcherSeen = fileVersion
    /\ triggers' = triggers + 1
    /\ fileVersion' = fileVersion + 1
    /\ fileOK' \in BOOLEAN
    /\ UNCHANGED <<now, proc, enableGPUWatch, profilingOK, watcherSeen,
                   coordVars, regVars, thVars, histVars, scrVars>>
    /\ UNCHANGED partVars

\* FileWatcher: after the debounce the mtime differs from lastModTime, so
\* onChange (hotReload) is called on the watcher's goroutine.
FileNotify ==
    /\ proc = "running"
    /\ pc["file"] = "idle"
    /\ watcherSeen # fileVersion
    /\ watcherSeen' = fileVersion
    /\ StartCall("file", "h_check")
    /\ UNCHANGED <<now, proc, enableGPUWatch, profilingOK, fileOK, fileVersion,
                   triggers, coordVars, regVars, histVars, scrVars>>
    /\ UNCHANGED partVars

\* GPUBindUnbindWatcher: a bind/unbind event; onChange is
\* handleGPUTopologyChange on the watcher's goroutine.
GpuEvent ==
    /\ proc = "running"
    /\ enableGPUWatch
    /\ pc["gpu"] = "idle"
    /\ triggers < MaxTriggers
    /\ triggers' = triggers + 1
    /\ StartCall("gpu", "t_bump")
    /\ UNCHANGED <<now, proc, enableGPUWatch, profilingOK, fileOK, fileVersion,
                   watcherSeen, coordVars, regVars, histVars, scrVars>>
    /\ UNCHANGED partVars

\* ------------------------------------------------------------- hotReload
\* last := time.Unix(lastReloadTime.Load(), 0); now.Sub(last) < minReloadInterval
HotRateLimited(t, v) == t - v * TicksPerSecond < minReloadInterval

\* lastReloadTime.Store(now.Unix())
HotStamp(t) == t \div TicksPerSecond

\* hotReload returns nil to its caller without having set the in-flight flag.
HotReturnEarly(t) ==
    /\ pc' = [pc EXCEPT ![t] = "idle"]
    /\ result' = [result EXCEPT ![t] = "nil"]
    /\ loc' = [loc EXCEPT ![t] = NoLocals]

\* Safeguard 1: if server.IsReloadInProgress() { return nil }
HotCheck(t) ==
    /\ Alive
    /\ pc[t] = "h_check"
    /\ IF reloadInProgress
       THEN HotReturnEarly(t)
       ELSE /\ pc' = [pc EXCEPT ![t] = "h_rate"]
            /\ UNCHANGED <<result, loc>>
    /\ UNCHANGED <<envVars, coordVars, regVars, scrVars, histVars, panicked>>
    /\ UNCHANGED partVars

\* Safeguard 2: now := time.Now(); the rate limit against lastReloadTime
HotRate(t) ==
    /\ Alive
    /\ pc[t] = "h_rate"
    /\ IF HotRateLimited(now, lastReloadTime)
       THEN /\ HotReturnEarly(t)
            /\ UNCHANGED tooSoon
       ELSE /\ pc' = [pc EXCEPT ![t] = "h_store"]
            /\ loc' = [loc EXCEPT ![t].now = now]
            /\ tooSoon' = (tooSoon \/ (/\ lastHotAt # Nil
                                       /\ now - lastHotAt < minReloadInterval))
            /\ UNCHANGED result
    /\ UNCHANGED <<envVars, coordVars, regVars, scrVars, panicked, lastHotAt,
                   lastClearFailed, exitCause>>
    /\ UNCHANGED partVars

\* reloadID := hotReloadCounter.Add(1); lastReloadTime.Store(now.Unix())
\* (nothing reads the counter but the log lines)
HotStore(t) ==
    /\ Alive
    /\ pc[t] = "h_store"
    /\ hotReloadCounter' = hotReloadCounter + 1
    /\ lastReloadTime' = HotStamp(loc[t].now)
    /\ pc' = [pc EXCEPT ![t] = "h_set"]
    /\ UNCHANGED <<envVars, regVars, scrVars, histVars, loc, panicked, result,
                   reloadInProgress, serverRegistry, pendingGPUTopologyChange,
                   libGen, libUp>>
    /\ UNCHANGED partVars

\* What contextToConfig returns to hotReload: the config, or the error of one
\* of its parseDeviceOptions calls or of the log level check.
ConfigOutcomes == {"ok", "err"}

\* if err != nil { return fmt.Errorf("failed to read config ...") }: hotReload
\* returns through its deferred calls before it touches the registry.
AfterConfig(out) == IF out = "ok" THEN "h_clear" ELSE "h_unset"

\* server.SetReloadInProgress(true); defer SetReloadInProgress(false);
\* config, err := contextToConfig(c)
HotSet(t) ==
    /\ Alive
    /\ pc[t] = "h_set"
    /\ reloadInProgress' = TRUE
    /\ loc' = [loc EXCEPT ![t].config = contextToConfig, ![t].steps = <<"hot">>]
    /\ \E out \in ConfigOutcomes :
         /\ pc' = [pc EXCEPT ![t] = AfterConfig(out)]
         /\ result' = [result EXCEPT ![t] = IF out = "ok" THEN @ ELSE "err"]
    /\ UNCHANGED <<envVars, regVars, scrVars, histVars, panicked,
                   serverRegistry, lastReloadTime, hotReloadCounter,
                   pendingGPUTopologyChange, libGen, libUp>>
    /\ UNCHANGED partVars

\* A faulty variant of AfterClear: the old registry is not cleaned up (C4
\* depends on the real one).
C4_NoDrain(old, build) == build

\* A faulty variant of AfterClear: the build comes first, and the old
\* registry is left as it was (C37 depends on the real one).
C37_BuildBeforeCleanup(old, build) == build

\* After ClearRegistry: if oldRegistry != nil { oldRegistry.Cleanup() }
AfterClear(old, build) == IF old # Nil THEN "c_set" ELSE build

\* oldRegistry := server.ClearRegistry() (an atomic swap with nil)
ClearRegistry(t, build) ==
    /\ loc' = [loc EXCEPT ![t].oldRegistry = serverRegistry,
                          ![t].steps = Append(@, "clear")]
    /\ serverRegistry' = Nil
    /\ pc' = [pc EXCEPT ![t] = AfterClear(serverRegistry, build)]

\* Step 1: oldRegistry := server.ClearRegistry()
HotClear(t) ==
    /\ Alive
    /\ pc[t] = "h_clear"
    /\ ClearRegistry(t, "h_build")
    /\ UNCHANGED <<envVars, regVars, scrVars, histVars, panicked, result,
                   reloadInProgress, lastReloadTime, hotReloadCounter,
                   pendingGPUTopologyChange, libGen, libUp>>
    /\ UNCHANGED partVars

\* buildRegistry: getCounters ends the process (os.Exit(1)) when the counter
\* set cannot be loaded; GetHostname may fail; otherwise a new registry with
\* the collectors of the config. hotReload returns the error of a failed
\* build; handleGPUTopologyChange only logs it and returns nothing.
BuildOutcomes == {"ok", "err"}

BuildRegistry(t, next, fail, what) ==
    IF ~fileOK
    THEN /\ proc' = "exited"
         /\ exitCause' = <<"os.Exit", t, what>>
         /\ UNCHANGED <<pc, loc, nextReg, regConf, result, lastClearFailed>>
    ELSE \E out \in BuildOutcomes :
           /\ UNCHANGED <<proc, exitCause>>
           /\ IF out = "ok"
              THEN /\ loc' = [loc EXCEPT ![t].newRegistry = nextReg,
                                         ![t].steps = Append(@, "rebuild")]
                   /\ nextReg' = nextReg + 1
                   /\ regConf' = [regConf EXCEPT ![nextReg] = BuiltFrom(loc[t].config)]
                   /\ pc' = [pc EXCEPT ![t] = next]
                   /\ UNCHANGED <<result, lastClearFailed>>
              ELSE /\ result' = [result EXCEPT ![t] = IF what = "hot" THEN "err" ELSE @]
                   /\ lastClearFailed' = TRUE
                   /\ pc' = [pc EXCEPT ![t] = fail]
                   /\ UNCHANGED <<loc, nextReg, regConf>>

\* Step 2: newRegistry, deviceWatchListMgr, err := buildRegistry(ctx, c, config)
HotBuild(t) ==
    /\ Alive
    /\ pc[t] = "h_build"
    /\ nextReg \in RegIds
    /\ BuildRegistry(t, "h_publish", "h_unset", "hot")
    /\ UNCHANGED <<now, enableGPUWatch, profilingOK, fileOK, fileVersion,
                   watcherSeen, triggers, coordVars, scrVars, panicked,
                   shuttingDown, activeGathers, readers, writer, cleanups,
                   superseded, tooSoon, lastHotAt>>
    /\ UNCHANGED partVars

\* The registries a publish step replaces: the one this reload cleared and
\* the one its SetRegistry overwrites.
Replaced(t) == {loc[t].oldRegistry, serverRegistry} \ {Nil}

\* A faulty variant of SetRegistry: the publish step stores nothing (C3
\* depends on the real one).
C3_PublishLost(t, next) ==
    /\ UNCHANGED <<serverRegistry, superseded>>
    /\ lastClearFailed' = FALSE
    /\ loc' = [loc EXCEPT ![t].steps = Append(@, "publish")]
    /\ pc' = [pc EXCEPT ![t] = next]

\* server.SetRegistry(newRegistry)
SetRegistry(t, next) ==
    /\ serverRegistry' = loc[t].newRegistry
    /\ superseded' = [r \in RegIds |-> superseded[r] \/ r \in Replaced(t)]
    /\ lastClearFailed' = FALSE
    /\ loc' = [loc EXCEPT ![t].steps = Append(@, "publish")]
    /\ pc' = [pc EXCEPT ![t] = next]

\* Step 3: server.SetRegistry(newRegistry)
HotPublish(t) ==
    /\ Alive
    /\ pc[t] = "h_publish"
    /\ SetRegistry(t, "h_pend")
    /\ lastHotAt' = loc[t].now
    /\ UNCHANGED <<envVars, scrVars, panicked, result, tooSoon,
                   exitCause, reloadInProgress, lastReloadTime, hotReloadCounter,
                   pendingGPUTopologyChange, libGen, libUp, nextReg, regConf,
                   shuttingDown, activeGathers, readers, writer, cleanups>>
    /\ UNCHANGED partVars

\* Step 4, processPendingEvents: if pendingGPUTopologyChange.Load()
HotPending(t) ==
    /\ Alive
    /\ pc[t] = "h_pend"
    /\ IF pendingGPUTopologyChange
       THEN /\ pc' = [pc EXCEPT ![t] = "h_pendclr"]
            /\ loc' = [loc EXCEPT ![t].sawPending = TRUE]
       ELSE /\ pc' = [pc EXCEPT ![t] = "h_unset"]
            /\ UNCHANGED loc
    /\ result' = [result EXCEPT ![t] = "nil"]
    /\ UNCHANGED <<envVars, coordVars, regVars, scrVars, histVars, panicked>>
    /\ UNCHANGED partVars

\* pendingGPUTopologyChange.Store(false); handleGPUTopologyChange(...)
HotPendingClear(t) ==
    /\ Alive
    /\ pc[t] = "h_pendclr"
    /\ pendingGPUTopologyChange' = FALSE
    /\ loc' = [loc EXCEPT ![t].nested = TRUE]
    /\ pc' = [pc EXCEPT ![t] = "t_bump"]
    /\ UNCHANGED <<envVars, regVars, scrVars, histVars, panicked, result,
                   reloadInProgress, serverRegistry, lastReloadTime,
                   hotReloadCounter, libGen, libUp>>
    /\ UNCHANGED partVars

\* A step of hotReload's body panics: the stack unwinds to the deferred calls.
HotPanicAt == {"h_clear", "h_build", "h_publish", "h_pend"}

\* Where the unwinding of a panic in hotReload's body goes first: the
\* deferred SetReloadInProgress(false), registered last.
HotPanicTarget == "h_unset"

HotPanic(t) ==
    /\ Alive
    /\ pc[t] \in HotPanicAt
    /\ panicked' = [panicked EXCEPT ![t] = TRUE]
    /\ lastClearFailed' = (lastClearFailed \/ pc[t] \in {"h_build", "h_publish"})
    /\ pc' = [pc EXCEPT ![t] = HotPanicTarget]
    /\ UNCHANGED <<envVars, coordVars, regVars, scrVars, loc, result, tooSoon,
                   lastHotAt, exitCause>>
    /\ UNCHANGED partVars

\* A faulty variant of Recovered: the deferred recover() does not set the
\* error (C8 depends on the real one).
C8_NoRecover(t) == result[t]

\* What hotReload returns: the deferred recover() turns a panic into an error.
Recovered(t) == IF panicked[t] THEN "err" ELSE result[t]

\* deferred server.SetReloadInProgress(false); then the deferred recover();
\* hotReload returns
HotUnset(t) ==
    /\ Alive
    /\ pc[t] = "h_unset"
    /\ reloadInProgress' = FALSE
    /\ result' = [result EXCEPT ![t] = Recovered(t)]
    /\ loc' = [loc EXCEPT ![t] = NoLocals]
    /\ pc' = [pc EXCEPT ![t] = "idle"]
    /\ UNCHANGED <<envVars, regVars, scrVars, histVars, panicked,
                   serverRegistry, lastReloadTime, hotReloadCounter,
                   pendingGPUTopologyChange, libGen, libUp>>
    /\ UNCHANGED partVars

\* ------------------------------------------------- handleGPUTopologyChange
\* lastReload := time.Unix(0, lastReloadTime.Load());
\* time.Since(lastReload) < minReloadInterval
TopoRateLimited(t, v) == t - (v \div NanosPerTick) < minReloadInterval

\* lastReloadTime.Store(time.Now().UnixNano())
TopoStamp(t) == t * NanosPerTick

\* handleGPUTopologyChange returns: to processPendingEvents inside hotReload
\* (whose deferred calls run next), or to the watcher.
TopoReturn(t) ==
    /\ pc' = [pc EXCEPT ![t] = IF loc[t].nested THEN "h_unset" ELSE "idle"]
    /\ loc' = [loc EXCEPT ![t] = IF loc[t].nested
                                 THEN [@ EXCEPT !.nested = FALSE]
                                 ELSE NoLocals]

\* reloadID := hotReloadCounter.Add(1)
TopoBump(t) ==
    /\ Alive
    /\ pc[t] = "t_bump"
    /\ hotReloadCounter' = hotReloadCounter + 1
    /\ pc' = [pc EXCEPT ![t] = "t_rate"]
    /\ UNCHANGED <<envVars, regVars, scrVars, histVars, loc, panicked, result,
                   reloadInProgress, serverRegistry, lastReloadTime,
                   pendingGPUTopologyChange, libGen, libUp>>
    /\ UNCHANGED partVars

\* Safeguard: the rate limit
TopoRate(t) ==
    /\ Alive
    /\ pc[t] = "t_rate"
    /\ IF TopoRateLimited(now, lastReloadTime)
       THEN TopoReturn(t)
       ELSE /\ pc' = [pc EXCEPT ![t] = "t_store"]
            /\ UNCHANGED loc
    /\ UNCHANGED <<envVars, coordVars, regVars, scrVars, histVars, panicked,
                   result>>
    /\ UNCHANGED partVars

\* lastReloadTime.Store(time.Now().UnixNano())
TopoStore(t) ==
    /\ Alive
    /\ pc[t] = "t_store"
    /\ lastReloadTime' = TopoStamp(now)
    /\ pc' = [pc EXCEPT ![t] = "t_check"]
    /\ UNCHANGED <<envVars, regVars, scrVars, histVars, loc, panicked, result,
                   reloadInProgress, serverRegistry, hotReloadCounter,
                   pendingGPUTopologyChange, libGen, libUp>>
    /\ UNCHANGED partVars

\* Safeguard: if server.IsReloadInProgress() { queue the event }
TopoCheck(t) ==
    /\ Alive
    /\ pc[t] = "t_check"
    /\ pc' = [pc EXCEPT ![t] = IF reloadInProgress THEN "t_queue" ELSE "t_set"]
    /\ UNCHANGED <<envVars, coordVars, regVars, scrVars, histVars, loc,
                   panicked, result>>
    /\ UNCHANGED partVars

\* pendingGPUTopologyChange.Store(true); return
TopoQueue(t) ==
    /\ Alive
    /\ pc[t] = "t_queue"
    /\ pendingGPUTopologyChange' = TRUE
    /\ TopoReturn(t)
    /\ UNCHANGED <<envVars, regVars, scrVars, histVars, panicked, result,
                   reloadInProgress, serverRegistry, lastReloadTime,
                   hotReloadCounter, libGen, libUp>>
    /\ UNCHANGED partVars

\* server.SetReloadInProgress(true); defer server.SetReloadInProgress(false)
TopoSet(t) ==
    /\ Alive
    /\ pc[t] = "t_set"
    /\ reloadInProgress' = TRUE
    /\ loc' = [loc EXCEPT ![t].steps = <<"topo">>, ![t].oldRegistry = Nil,
                          ![t].newRegistry = Nil]
    /\ pc' = [pc EXCEPT ![t] = "t_clear"]
    /\ UNCHANGED <<envVars, regVars, scrVars, histVars, panicked, result,
                   serverRegistry, lastReloadTime, hotReloadCounter,
                   pendingGPUTopologyChange, libGen, libUp>>
    /\ UNCHANGED partVars

\* Step 1: oldRegistry := server.ClearRegistry()
TopoClear(t) ==
    /\ Alive
    /\ pc[t] = "t_clear"
    /\ ClearRegistry(t, "t_libcleanup")
    /\ UNCHANGED <<envVars, regVars, scrVars, histVars, panicked, result,
                   reloadInProgress, lastReloadTime, hotReloadCounter,
                   pendingGPUTopologyChange, libGen, libUp>>
    /\ UNCHANGED partVars

\* Step 2: dcgmCleanup(); then config, err := contextToConfig(c)
TopoLibCleanup(t) ==
    /\ Alive
    /\ pc[t] = "t_libcleanup"
    /\ libUp' = FALSE
    /\ loc' = [loc EXCEPT ![t].config = contextToConfig,
                          ![t].steps = Append(@, "libCleanup")]
    /\ pc' = [pc EXCEPT ![t] = "t_init"]
    /\ UNCHANGED <<envVars, regVars, scrVars, histVars, panicked, result,
                   reloadInProgress, serverRegistry, lastReloadTime,
                   hotReloadCounter, pendingGPUTopologyChange, libGen>>
    /\ UNCHANGED partVars

\* Step 3: dcgmprovider.Initialize(config)
TopoLibInit(t) ==
    /\ Alive
    /\ pc[t] = "t_init"
    /\ libUp' = TRUE
    /\ libGen' = libGen + 1
    /\ loc' = [loc EXCEPT ![t].steps = Append(@, "libInit")]
    /\ pc' = [pc EXCEPT ![t] = "t_query"]
    /\ UNCHANGED <<envVars, regVars, scrVars, histVars, panicked, result,
                   reloadInProgress, serverRegistry, lastReloadTime,
                   hotReloadCounter, pendingGPUTopologyChange>>
    /\ UNCHANGED partVars

\* Step 4: queryDCPMetrics(config, reloadID); a panic of the profiling query
\* is recovered inside it
TopoQuery(t) ==
    /\ Alive
    /\ pc[t] = "t_query"
    /\ \E ok \in BOOLEAN :
         loc' = [loc EXCEPT ![t].config = queryDCPMetrics(@, ok),
                            ![t].steps = Append(@, "reQuery")]
    /\ pc' = [pc EXCEPT ![t] = "t_build"]
    /\ UNCHANGED <<envVars, coordVars, regVars, scrVars, histVars, panicked,
                   result>>
    /\ UNCHANGED partVars

\* Step 5: buildRegistry; on an error the registry stays nil
TopoBuild(t) ==
    /\ Alive
    /\ pc[t] = "t_build"
    /\ nextReg \in RegIds
    /\ BuildRegistry(t, "t_publish", "t_unset", "topo")
    /\ UNCHANGED <<now, enableGPUWatch, profilingOK, fileOK, fileVersion,
                   watcherSeen, triggers, coordVars, scrVars, panicked,
                   shuttingDown, activeGathers, readers, writer, cleanups,
                   superseded, tooSoon, lastHotAt>>
    /\ UNCHANGED partVars

\* Step 6: server.SetRegistry(newRegistry)
TopoPublish(t) ==
    /\ Alive
    /\ pc[t] = "t_publish"
    /\ SetRegistry(t, "t_unset")
    /\ UNCHANGED <<envVars, scrVars, panicked, result, tooSoon, lastHotAt,
                   exitCause, reloadInProgress, lastReloadTime, hotReloadCounter,
                   pendingGPUTopologyChange, libGen, libUp, nextReg, regConf,
                   shuttingDown, activeGathers, readers, writer, cleanups>>
    /\ UNCHANGED partVars

\* A step of the topology reload panics (the library calls and the rebuild).
TopoPanicAt == {"t_libcleanup", "t_init", "t_build"}

TopoPanic(t) ==
    /\ Alive
    /\ pc[t] \in TopoPanicAt
    /\ panicked' = [panicked EXCEPT ![t] = TRUE]
    /\ lastClearFailed' = TRUE
    /\ pc' = [pc EXCEPT ![t] = "t_unset"]
    /\ UNCHANGED <<envVars, coordVars, regVars, scrVars, loc, result, tooSoon,
                   lastHotAt, exitCause>>
    /\ UNCHANGED partVars

\* deferred server.SetReloadInProgress(false) of handleGPUTopologyChange.
\* A panic goes on unwinding: into hotReload's deferred calls when nested, and
\* out of the watcher goroutine (which recovers nothing) otherwise.
TopoUnset(t) ==
    /\ Alive
    /\ pc[t] = "t_unset"
    /\ reloadInProgress' = FALSE
    /\ IF panicked[t] /\ ~loc[t].nested
       THEN /\ proc' = "crashed"
            /\ exitCause' = <<"panic", t, "topo">>
            /\ UNCHANGED <<pc, loc>>
       ELSE /\ TopoReturn(t)
            /\ UNCHANGED <<proc, exitCause>>
    /\ UNCHANGED <<now, enableGPUWatch, profilingOK, fileOK, fileVersion,
                   watcherSeen, triggers, regVars, scrVars, panicked, result,
                   tooSoon, lastHotAt, lastClearFailed, serverRegistry,
                   lastReloadTime, hotReloadCounter, pendingGPUTopologyChange,
                   libGen, libUp>>
    /\ UNCHANGED partVars

\* ---------------------------------------------------------------- shutdown
\* SIGINT/SIGTERM/SIGQUIT leaves the signal loop; watcherCancel()
Sigterm ==
    /\ proc = "running"
    /\ pc["sig"] = "idle"
    /\ proc' = "stopping"
    /\ pc' = [pc EXCEPT !["sig"] = "x_waitw"]
    /\ UNCHANGED <<now, enableGPUWatch, profilingOK, fileOK, fileVersion,
                   watcherSeen, triggers, coordVars, regVars, scrVars, histVars,
                   loc, panicked, result>>
    /\ UNCHANGED partVars

\* A faulty variant of WatchersReturned: the shutdown does not wait for the
\* watchers (C38 depends on the real one).
C38_NoWait == TRUE

\* watcherWg.Wait() returns: the goroutines of runWatcher and runGPUWatcher
\* have called wg.Done(), which they defer around w.Watch; Watch calls
\* onChange itself, so neither is inside a callback.
WatchersReturned == pc["file"] = "idle" /\ pc["gpu"] = "idle"

\* watcherWg.Wait(): both watcher goroutines have returned;
\* close(stop); serverWg.Wait()
StopServer ==
    /\ proc = "stopping"
    /\ pc["sig"] = "x_waitw"
    /\ WatchersReturned
    /\ proc' = "stopped"
    /\ pc' = [pc EXCEPT !["sig"] = "x_dcgm"]
    /\ UNCHANGED <<now, enableGPUWatch, profilingOK, fileOK, fileVersion,
                   watcherSeen, triggers, coordVars, regVars, scrVars, histVars,
                   loc, panicked, result>>
    /\ UNCHANGED partVars

\* if config.EnableGPUBindUnbindWatch { dcgmCleanup() }; then the deferred
\* initialRegistry.Cleanup() starts
ShutdownLib ==
    /\ proc = "stopped"
    /\ pc["sig"] = "x_dcgm"
    /\ libUp' = (libUp /\ ~enableGPUWatch)
    /\ loc' = [loc EXCEPT !["sig"].oldRegistry = 0,
                          !["sig"].steps = <<"shutdown">>]
    /\ pc' = [pc EXCEPT !["sig"] = "c_set"]
    /\ UNCHANGED <<envVars, regVars, scrVars, histVars, panicked, result,
                   reloadInProgress, serverRegistry, lastReloadTime,
                   hotReloadCounter, pendingGPUTopologyChange, libGen>>
    /\ UNCHANGED partVars

\* the remaining deferred calls; StartDCGMExporterWithSignalSource returns
Exit ==
    /\ proc = "stopped"
    /\ pc["sig"] = "x_exit"
    /\ libUp' = FALSE
    /\ proc' = "exited"
    /\ exitCause' = <<"shutdown", "sig", "none">>
    /\ UNCHANGED <<now, enableGPUWatch, profilingOK, fileOK, fileVersion,
                   watcherSeen, triggers, regVars, scrVars, thVars, tooSoon,
                   lastHotAt, lastClearFailed, reloadInProgress, serverRegistry,
                   lastReloadTime, hotReloadCounter, pendingGPUTopologyChange,
                   libGen>>
    /\ UNCHANGED partVars

\* ================================================================ parts
\* The parts below are run one at a time: `part` names the one a behaviour
\* exercises, and its actions are the only ones enabled.  Each keeps its
\* state in one record.
Parts == {"server", "gather", "file", "gpu", "topology", "labels", "weighted", "cache", "collector", "process",
          "ratelimit", "watchlist", "merge"}

\* ---------------------------------------------------------- MetricsServer
\* MetricsServer.registry is an atomic pointer; SetRegistry stores, ClearRegistry
\* swaps nil in and returns what was stored, GetRegistry loads and returns an
\* empty registry of its own when nothing is stored.
EmptyRegistry == -2          \* the fallback registry GetRegistry makes up

SrvInit == [registry |-> 0, next |-> 1, ops |-> 0, op |-> "none",
            got |-> 0, cleared |-> Nil, before |-> Nil]

\* A faulty variant of GetRegistry: the stored pointer as it is.
C11_RawLoad(stored) == stored

GetRegistry(stored) == IF stored = Nil THEN EmptyRegistry ELSE stored

notSrv == <<appVars, part, gth, fw, gw, tw, lbl, newParts>>

SrvSetRegistry ==
    /\ part = "server"
    /\ srv.ops < MaxServerOps
    /\ srv' = [srv EXCEPT !.registry = srv.next, !.next = srv.next + 1,
                          !.ops = srv.ops + 1, !.op = "set"]
    /\ UNCHANGED notSrv

SrvClearRegistry ==
    /\ part = "server"
    /\ srv.ops < MaxServerOps
    /\ srv' = [srv EXCEPT !.registry = Nil, !.cleared = srv.registry,
                          !.before = srv.registry,
                          !.ops = srv.ops + 1, !.op = "clear"]
    /\ UNCHANGED notSrv

SrvGetRegistry ==
    /\ part = "server"
    /\ srv.ops < MaxServerOps
    /\ srv' = [srv EXCEPT !.got = GetRegistry(srv.registry),
                          !.before = srv.registry,
                          !.ops = srv.ops + 1, !.op = "get"]
    /\ UNCHANGED notSrv

\* ------------------------------------------- Registry.Gather, the fan-out
\* One goroutine per collector calls GetMetrics; a successful one adds its
\* metrics to the shared map sm, a failing one returns its error to the
\* errgroup, which keeps the first error it is given.  g.Wait() returns that
\* error once every goroutine has finished.
Collectors == 1..NumCollectors

GthInit == [pc |-> "fanout", done |-> {}, sm |-> {}, failed |-> {},
            firstErr |-> 0, metrics |-> {}, err |-> 0]

notGth == <<appVars, part, srv, fw, gw, tw, lbl, newParts>>

\* A faulty variant of GatherReturn: the map as filled so far comes back with
\* the error.
C12_PartialResult(sm, firstErr) == [metrics |-> sm, err |-> firstErr]

\* if err := g.Wait(); err != nil { return nil, err }; otherwise the map.
GatherReturn(sm, firstErr) ==
    IF firstErr # 0 THEN [metrics |-> {}, err |-> firstErr]
                    ELSE [metrics |-> sm, err |-> 0]

\* The goroutine of collector c finishes: GetMetrics returned metrics or an error.
GthCollector ==
    /\ part = "gather"
    /\ gth.pc = "fanout"
    /\ \E c \in Collectors \ gth.done : \E ok \in BOOLEAN :
           gth' = [gth EXCEPT
                     !.done = gth.done \cup {c},
                     !.sm = IF ok THEN gth.sm \cup {c} ELSE gth.sm,
                     !.failed = IF ok THEN gth.failed ELSE gth.failed \cup {c},
                     !.firstErr = IF ok \/ gth.firstErr # 0 THEN gth.firstErr ELSE c]
    /\ UNCHANGED notGth

\* g.Wait() returns and Gather returns.
GthWait ==
    /\ part = "gather"
    /\ gth.pc = "fanout"
    /\ gth.done = Collectors
    /\ gth' = [gth EXCEPT !.pc = "returned",
                          !.metrics = GatherReturn(gth.sm, gth.firstErr).metrics,
                          !.err = GatherReturn(gth.sm, gth.firstErr).err]
    /\ UNCHANGED notGth

\* ------------------------------------------------------ FileWatcher.Watch
\* The goroutine of Watch, after fsnotify.NewWatcher: the setup, then the
\* select loop.  The file is the environment's: it is written (its mtime
\* moves on), removed and put back; what fsnotify delivers is any event at
\* all, for the watched file or another one of the directory, with an
\* operation inside or outside the event mask.  The channels of the fsnotify
\* watcher are closed only by its Close(), which Watch defers to its return.
ZeroTime == 0                \* the zero time.Time

FwInit == [pc |-> "start", ret |-> "none", cancelled |-> FALSE,
           now |-> 0, exists |-> TRUE, mtime |-> 1, writes |-> 0,
           existedAtStart |-> FALSE,
           lastModTime |-> ZeroTime, timerCh |-> FALSE, deadline |-> 0,
           lastEventAt |-> 0, events |-> 0, event |-> "none", errors |-> 0,
           onChanges |-> 0, sinceEvent |-> 0]

notFw == <<appVars, part, srv, gth, gw, tw, lbl, newParts>>

\* --- the environment
FwTick ==
    /\ part = "file"
    /\ fw.now < MaxWatchTime
    /\ fw' = [fw EXCEPT !.now = fw.now + 1]
    /\ UNCHANGED notFw

\* The file is written (or created): its mtime moves on.
FwWrite ==
    /\ part = "file"
    /\ fw.writes < MaxWrites
    /\ fw' = [fw EXCEPT !.exists = TRUE, !.mtime = fw.mtime + 1,
                        !.writes = fw.writes + 1]
    /\ UNCHANGED notFw

\* The file is moved away, or moved back with its mtime.
FwRemove ==
    /\ part = "file"
    /\ fw' = [fw EXCEPT !.exists = ~fw.exists]
    /\ UNCHANGED notFw

\* cancel() of the context Watch was given.
FwCancel ==
    /\ part = "file"
    /\ ~fw.cancelled
    /\ fw' = [fw EXCEPT !.cancelled = TRUE]
    /\ UNCHANGED notFw

\* --- Watch
\* A faulty variant of InitialModTime: the file is not looked at.
C15_NoInitialStat(exists, mtime) == ZeroTime

\* if info, err := os.Stat(filePath); err == nil { lastModTime = info.ModTime() }
InitialModTime(exists, mtime) == IF exists THEN mtime ELSE ZeroTime

\* watcher.Add(dir) succeeds or fails; then the initial Stat.
FwSetup ==
    /\ part = "file"
    /\ fw.pc = "start"
    /\ \E ok \in BOOLEAN :
           IF ok
           THEN fw' = [fw EXCEPT !.pc = "select",
                                 !.existedAtStart = fw.exists,
                                 !.lastModTime = InitialModTime(fw.exists, fw.mtime)]
           ELSE fw' = [fw EXCEPT !.pc = "returned", !.ret = "setupErr"]
    /\ UNCHANGED notFw

\* case <-ctx.Done(): return ctx.Err()
FwDone ==
    /\ part = "file"
    /\ fw.pc = "select"
    /\ fw.cancelled
    /\ fw' = [fw EXCEPT !.pc = "returned", !.ret = "ctxErr", !.timerCh = FALSE]
    /\ UNCHANGED notFw

\* A faulty variant of TimerDeadline: the timer fires at once.
C14_NoDebounce(t) == t

\* time.NewTimer(fw.debounceDelay) / debounceTimer.Reset(fw.debounceDelay)
TimerDeadline(t) == t + debounceDelay

\* event.Op&fw.eventMask != 0 && filepath.Base(event.Name) == file
Matches(name, masked) == masked /\ name = "file"

\* case event, ok := <-watcher.Events: a matching event creates or resets the
\* debounce timer, any other event is dropped.
FwEvent ==
    /\ part = "file"
    /\ fw.pc = "select"
    /\ fw.events < MaxFsEvents
    /\ \E name \in {"file", "other"} : \E masked \in BOOLEAN :
           IF Matches(name, masked)
           THEN fw' = [fw EXCEPT !.timerCh = TRUE,
                                 !.deadline = TimerDeadline(fw.now),
                                 !.lastEventAt = fw.now,
                                 !.events = fw.events + 1,
                                 !.event = "match",
                                 !.sinceEvent = 0]
           ELSE fw' = [fw EXCEPT !.events = fw.events + 1,
                                 !.event = IF name = "file" THEN "masked" ELSE "other"]
    /\ UNCHANGED notFw

\* case <-timerCh: Stat the file; a modTime other than lastModTime is
\* recorded and onChange is called; timerCh = nil.
FwTimer ==
    /\ part = "file"
    /\ fw.pc = "select"
    /\ fw.timerCh
    /\ fw.now >= fw.deadline
    /\ IF fw.exists /\ fw.mtime # fw.lastModTime
       THEN fw' = [fw EXCEPT !.lastModTime = fw.mtime,
                             !.onChanges = fw.onChanges + 1,
                             !.sinceEvent = fw.sinceEvent + 1,
                             !.timerCh = FALSE]
       ELSE fw' = [fw EXCEPT !.timerCh = FALSE]
    /\ UNCHANGED notFw

\* Where Watch goes after a value of watcher.Errors: it logs and loops.
AfterNotifyError == "select"

\* case err, ok := <-watcher.Errors: slog.Warn
FwError ==
    /\ part = "file"
    /\ fw.pc = "select"
    /\ fw.errors < 1
    /\ fw' = [fw EXCEPT !.errors = fw.errors + 1, !.pc = AfterNotifyError]
    /\ UNCHANGED notFw

\* --------------------------------------------- GPUBindUnbindWatcher.Watch
\* The goroutine of Watch.  The device library holds the latest sample of
\* the global field DCGM_FI_BIND_UNBIND_EVENT, a value with the timestamp at
\* which it was taken; every new sample has a later timestamp.  A read of the
\* field fails, returns no value, or returns the latest sample.
DcgmBUEventStateSystemReinitializing == 1
DcgmBUEventStateSystemReinitializationCompleted == 2

EventValues == 0..MaxEventValue

GwInit == [pc |-> "start", ret |-> "none", cancelled |-> FALSE,
           deferred |-> <<>>, released |-> <<>>,
           sample |-> [v |-> 0, ts |-> 1], samples |-> 0,
           lastEventTS |-> 0, seenTS |-> 0,
           polls |-> 0, pollErrors |-> 0, read |-> "none",
           onChanges |-> 0, fired |-> <<>>]

notGw == <<appVars, part, srv, gth, fw, tw, lbl, newParts>>

Reverse(seq) == [i \in 1..Len(seq) |-> seq[Len(seq) + 1 - i]]

\* A faulty variant of RunDeferred: first deferred, first run.
C17_FifoDefers(deferred) == deferred

\* The deferred calls run when Watch returns, the last deferred first.
RunDeferred(deferred) == Reverse(deferred)

\* Watch returns r: its deferred calls run.
GwReturn(r) ==
    [gw EXCEPT !.pc = "returned", !.ret = r,
               !.released = RunDeferred(gw.deferred), !.deferred = <<>>]

\* --- the environment
\* The library takes a new sample of the field.
GwSample ==
    /\ part = "gpu"
    /\ gw.samples < MaxSamples
    /\ \E v \in EventValues :
           gw' = [gw EXCEPT !.sample = [v |-> v, ts |-> gw.sample.ts + 1],
                            !.samples = gw.samples + 1]
    /\ UNCHANGED notGw

GwCancel ==
    /\ part = "gpu"
    /\ ~gw.cancelled
    /\ gw' = [gw EXCEPT !.cancelled = TRUE]
    /\ UNCHANGED notGw

\* --- Watch
\* FieldGroupCreate: success defers FieldGroupDestroy; an error naming a
\* missing NVML makes Watch return nil, any other error is returned.
GwCreate ==
    /\ part = "gpu"
    /\ gw.pc = "start"
    /\ \E out \in {"ok", "nvml", "err"} :
           gw' = CASE out = "ok" -> [gw EXCEPT !.pc = "created",
                                               !.deferred = <<"destroy">>]
                   [] out = "nvml" -> GwReturn("nil")
                   [] OTHER -> GwReturn("createErr")
    /\ UNCHANGED notGw

\* WatchFieldsWithGroupEx: success defers UnwatchFields; an error is returned.
GwWatchFields ==
    /\ part = "gpu"
    /\ gw.pc = "created"
    /\ \E ok \in BOOLEAN :
           gw' = IF ok
                 THEN [gw EXCEPT !.pc = "init",
                                 !.deferred = Append(gw.deferred, "unwatch")]
                 ELSE GwReturn("watchErr")
    /\ UNCHANGED notGw

\* What a read of the field returns.
ReadOutcomes == {"updateErr", "getErr", "empty", "value"}

\* UpdateAllFields and EntityGetLatestValues before the loop: a value that
\* was read gives lastEventTS its timestamp.
GwInitRead ==
    /\ part = "gpu"
    /\ gw.pc = "init"
    /\ \E out \in ReadOutcomes :
           gw' = IF out = "value"
                 THEN [gw EXCEPT !.pc = "select", !.read = out,
                                 !.lastEventTS = gw.sample.ts,
                                 !.seenTS = gw.sample.ts]
                 ELSE [gw EXCEPT !.pc = "select", !.read = out]
    /\ UNCHANGED notGw

\* case <-ctx.Done(): return ctx.Err()
GwDone ==
    /\ part = "gpu"
    /\ gw.pc = "select"
    /\ gw.cancelled
    /\ gw' = GwReturn("ctxErr")
    /\ UNCHANGED notGw

\* A faulty variant of AfterPollError: Watch gives up.
C13_StopOnPollError == "returned"

\* Where Watch goes after a failed UpdateAllFields or
\* EntityGetLatestValues: `continue`.
AfterPollError == "select"

\* A faulty variant of IsBindUnbind: any value but 0 counts.
C16_AnyValue(v) == v # 0

\* eventValue == SystemReinitializing or == SystemReinitializationCompleted
IsBindUnbind(v) ==
    v \in {DcgmBUEventStateSystemReinitializing,
           DcgmBUEventStateSystemReinitializationCompleted}

\* case <-ticker.C: UpdateAllFields, EntityGetLatestValues, and for a value
\* with a later timestamp than lastEventTS and a value other than 0:
\* lastEventTS = eventTS, and onChange() for a bind or an unbind.
GwPoll ==
    /\ part = "gpu"
    /\ gw.pc = "select"
    /\ gw.polls < MaxPolls
    /\ \E out \in ReadOutcomes :
           gw' = CASE out \in {"updateErr", "getErr"} ->
                        IF AfterPollError = "select"
                        THEN [gw EXCEPT !.polls = gw.polls + 1, !.read = out,
                                        !.pollErrors = gw.pollErrors + 1]
                        ELSE [GwReturn("pollErr") EXCEPT !.polls = gw.polls + 1,
                                                         !.read = out]
                   [] out = "empty" ->
                        [gw EXCEPT !.polls = gw.polls + 1, !.read = out]
                   [] OTHER ->
                        LET new == gw.sample.ts > gw.lastEventTS /\ gw.sample.v # 0
                            call == new /\ IsBindUnbind(gw.sample.v)
                        IN  [gw EXCEPT
                               !.polls = gw.polls + 1, !.read = out,
                               !.seenTS = gw.sample.ts,
                               !.lastEventTS = IF new THEN gw.sample.ts
                                               ELSE gw.lastEventTS,
                               !.onChanges = IF call THEN gw.onChanges + 1
                                             ELSE gw.onChanges,
                               !.fired = IF call THEN Append(gw.fired, gw.sample.ts)
                                         ELSE gw.fired]
    /\ UNCHANGED notGw

\* --------------------------------------------------- WatchTopologyChanges
\* UUIDs are numbered in the order of their strings; a list of UUIDs is a
\* sequence of at most MaxGPUs of them, repetitions allowed.
UUIDs == 1..NumUUIDs

UUIDLists == UNION {[1..n -> UUIDs] : n \in 0..MaxGPUs}

\* A faulty variant of topologyChanged: the sets of UUIDs are compared.
C18_SetCompare(oldUUIDs, newUUIDs) ==
    {oldUUIDs[i] : i \in 1..Len(oldUUIDs)} # {newUUIDs[i] : i \in 1..Len(newUUIDs)}

\* topologyChanged: different lengths, or different after sorting copies.
topologyChanged(oldUUIDs, newUUIDs) ==
    IF Len(oldUUIDs) # Len(newUUIDs)
    THEN TRUE
    ELSE LET oldCopy == SortSeq(oldUUIDs, LAMBDA a, b : a < b)
             newCopy == SortSeq(newUUIDs, LAMBDA a, b : a < b)
         IN  oldCopy # newCopy

TwInit == [pc |-> "start", initialUUIDs |-> <<>>, currentUUIDs |-> <<>>,
           consecutiveFailures |-> 0, outcomes |-> <<>>, exit |-> "none",
           cancelled |-> FALSE]

notTw == <<appVars, part, srv, gth, fw, gw, lbl, newParts>>

\* getGPUUUIDsWithRetry(3): the initial snapshot, or return without watching.
TwStart ==
    /\ part = "topology"
    /\ tw.pc = "start"
    /\ \/ \E uuids \in UUIDLists :
              tw' = [tw EXCEPT !.pc = "loop", !.initialUUIDs = uuids]
       \/ tw' = [tw EXCEPT !.pc = "returned"]
    /\ UNCHANGED notTw

TwCancel ==
    /\ part = "topology"
    /\ ~tw.cancelled
    /\ tw' = [tw EXCEPT !.cancelled = TRUE]
    /\ UNCHANGED notTw

\* case <-ctx.Done(): return
TwDone ==
    /\ part = "topology"
    /\ tw.pc = "loop"
    /\ tw.cancelled
    /\ tw' = [tw EXCEPT !.pc = "returned"]
    /\ UNCHANGED notTw

\* A faulty variant of TooManyFailures: the first failure is one too many.
C19_ExitAtOnce(n) == n >= 1

\* if consecutiveFailures >= maxConsecutiveFailures
TooManyFailures(n) == n >= maxConsecutiveFailures

\* case <-ticker.C, GetGPUUUIDs failed: count it, os.Exit(1) at the limit.
TwPollFailed ==
    /\ part = "topology"
    /\ tw.pc = "loop"
    /\ Len(tw.outcomes) < MaxTopoPolls
    /\ tw' = [tw EXCEPT
                !.consecutiveFailures = tw.consecutiveFailures + 1,
                !.outcomes = Append(tw.outcomes, "failed"),
                !.pc = IF TooManyFailures(tw.consecutiveFailures + 1)
                       THEN "exited" ELSE "loop",
                !.exit = IF TooManyFailures(tw.consecutiveFailures + 1)
                         THEN "errors" ELSE "none"]
    /\ UNCHANGED notTw

\* case <-ticker.C, GetGPUUUIDs returned a list: the count restarts, and a
\* changed topology ends the process.
TwPoll ==
    /\ part = "topology"
    /\ tw.pc = "loop"
    /\ Len(tw.outcomes) < MaxTopoPolls
    /\ \E uuids \in UUIDLists :
           tw' = [tw EXCEPT
                    !.consecutiveFailures = 0,
                    !.currentUUIDs = uuids,
                    !.outcomes = Append(tw.outcomes, "ok"),
                    !.pc = IF topologyChanged(tw.initialUUIDs, uuids)
                           THEN "exited" ELSE "loop",
                    !.exit = IF topologyChanged(tw.initialUUIDs, uuids)
                             THEN "changed" ELSE "none"]
    /\ UNCHANGED notTw

\* ------------------------------------- collector and transformation pipeline
\* One gather of a collector of non-MIG GPUs, none of them H-series, and the
\* stages that rewrite its result.  A sample is kept with what decides the
\* keys of its Labels and Attributes maps: gpu is the entity, shared says that
\* Labels is the map toMetric made for that entity (every sample of the
\* entity refers to the same map), own is the map of a sample that has a copy,
\* nilAttrs says that Attributes is nil.
Entities == 1..NumEntities

GpuUtil == "DCGM_FI_DEV_GPU_UTIL"
GpuTemp == "DCGM_FI_DEV_GPU_TEMP"
WeightedCollector == "DCGM_FI_DEV_WEIGHTED_GPU_UTIL (collector)"
WeightedTransformation == "DCGM_FI_DEV_WEIGHTED_GPU_UTIL"
MetricCounters == {GpuUtil, GpuTemp, WeightedCollector, WeightedTransformation}

\* A counter of type label that the collector is configured with.
LabelCounter == "DCGM_FI_DRIVER_VERSION"
PodLabelKeys == {"app"}
PodAttributes == {"pod", "namespace", "container"}
OldPodAttributes == {"pod_name", "pod_namespace", "container_name"}
DRAAttributes == {"dra_claim_name", "dra_claim_namespace", "dra_driver_name",
                  "dra_pool_name", "dra_device_name"}
ProcessAttributes == {"pid", "command", "process_name", "type"}

\* The order of the stages; the code that builds the pipeline is not part of
\* the sources, the order is the documented one.
Pipeline == <<"PodMapper", "WeightedUtil", "ProcessMapper">>

LblInit == [pc |-> "collect", stage |-> 1,
            maps |-> [e \in Entities |-> {}],
            metrics |-> [c \in MetricCounters |-> <<>>]]

notLbl == <<appVars, part, srv, gth, fw, gw, tw, newParts>>

Labels(maps, m) == IF m.shared THEN maps[m.gpu] ELSE m.own

\* toMetric for one entity: a value that is the sentinel is skipped, the
\* value of a label counter goes into the entity's labels map, any other
\* value becomes a sample that refers to that map.
toMetric(st, e, val) ==
    LET m == [gpu |-> e, shared |-> TRUE, own |-> {}, nilAttrs |-> FALSE, attrs |-> {}]
        withUtil == IF val.util = "value"
                    THEN [st.metrics EXCEPT ![GpuUtil] = Append(@, m)]
                    ELSE st.metrics
    IN  [maps |-> [st.maps EXCEPT ![e] = IF val.label = "value" THEN {LabelCounter} ELSE {}],
         metrics |-> IF val.temp = "value"
                     THEN [withUtil EXCEPT ![GpuTemp] = Append(@, m)]
                     ELSE withUtil]

RECURSIVE toMetrics(_, _, _)
toMetrics(st, e, vals) ==
    IF e > NumEntities THEN st ELSE toMetrics(toMetric(st, e, vals[e]), e + 1, vals)

\* (maps, list) -> the list with f applied to every sample
MapSamples(list, f(_)) == [i \in 1..Len(list) |-> f(list[i])]

\* calculateWeightedGPUUtil for GPUs without the MIG mode label: one sample
\* per GPU that has a GPU_UTIL sample, with a copy of that sample's labels,
\* calculation_method added, and nil Attributes.
calculateWeightedGPUUtil(st) ==
    [st EXCEPT !.metrics[WeightedCollector] =
        MapSamples(st.metrics[GpuUtil],
                   LAMBDA m : [gpu |-> m.gpu, shared |-> FALSE,
                               own |-> Labels(st.maps, m) \cup {"calculation_method"},
                               nilAttrs |-> TRUE, attrs |-> {}])]

FieldValues == [util : {"value", "skip"}, temp : {"value", "skip"}, label : {"value", "skip"}]

\* DCGMCollector.GetMetrics without a read error
LblGetMetrics ==
    /\ part = "labels"
    /\ lbl.pc = "collect"
    /\ \E vals \in [Entities -> FieldValues] :
           LET st == calculateWeightedGPUUtil(
                         toMetrics([maps |-> lbl.maps, metrics |-> lbl.metrics], 1, vals))
           IN  lbl' = [lbl EXCEPT !.maps = st.maps, !.metrics = st.metrics,
                                  !.pc = "pipeline"]
    /\ UNCHANGED notLbl

NextStage(l) ==
    [l EXCEPT !.stage = l.stage + 1,
              !.pc = IF l.stage = Len(Pipeline) THEN "done" ELSE "pipeline"]

AtStage(name) ==
    /\ part = "labels"
    /\ lbl.pc = "pipeline"
    /\ Pipeline[lbl.stage] = name

PodInfos == {pi \in [exists : BOOLEAN, labels : SUBSET PodLabelKeys] :
                 ~pi.exists => pi.labels = {}}

PodMapperConfigs == [KubernetesVirtualGPUs : BOOLEAN, KubernetesEnableDRA : BOOLEAN,
                     UseOldNamespace : BOOLEAN, KubernetesEnablePodUID : BOOLEAN]

RECURSIVE Flatten(_)
Flatten(lists) == IF lists = <<>> THEN <<>> ELSE Head(lists) \o Flatten(Tail(lists))

\* A faulty variant of PodKeys: the container is left out.
C21_NoContainer(useOld) == IF useOld THEN {"pod_name", "pod_namespace"} ELSE {"pod", "namespace"}

\* The three attributes of a pod, under the names the configuration asks for.
PodKeys(useOld) == IF useOld THEN OldPodAttributes ELSE PodAttributes

Samples(metrics) ==
    UNION {{metrics[c][i] : i \in 1..Len(metrics[c])} : c \in MetricCounters}

\* The plain mode: a sample whose device has a pod gets the pod's attributes,
\* and the pod's labels are copied into its Labels map.
PodMapperPlain(l, cfg, deviceToPod) ==
    LET matched(m) == deviceToPod[m.gpu].exists
        copied(m) ==
            IF ~matched(m) THEN m
            ELSE [m EXCEPT !.attrs = @ \cup PodKeys(cfg.UseOldNamespace)
                                       \cup (IF cfg.KubernetesEnablePodUID THEN {"pod_uid"} ELSE {}),
                           !.own = IF m.shared THEN @
                                   ELSE @ \cup deviceToPod[m.gpu].labels]
    IN  [l EXCEPT
           !.maps = [e \in Entities |->
                       IF \E m \in Samples(l.metrics) : m.gpu = e /\ m.shared /\ matched(m)
                       THEN l.maps[e] \cup deviceToPod[e].labels
                       ELSE l.maps[e]],
           !.metrics = [c \in MetricCounters |-> MapSamples(l.metrics[c], copied)]]

\* The modes with several pods to a device: a sample is replaced by one clone
\* per pod of its device.  With virtual GPUs a sample without pods is dropped
\* and a counter left without samples keeps its list; with DRA a sample whose
\* device has no entry is kept.
PodMapperFanOut(l, cfg, sharing, added, keep) ==
    LET clone(m) == [m EXCEPT !.shared = FALSE, !.own = Labels(l.maps, m),
                              !.attrs = @ \cup PodKeys(cfg.UseOldNamespace) \cup added]
        clones(m) == IF sharing[m.gpu] = 0 /\ keep THEN <<m>>
                     ELSE [k \in 1..sharing[m.gpu] |-> clone(m)]
        newmetrics(c) == Flatten(MapSamples(l.metrics[c], clones))
    IN  [l EXCEPT !.metrics = [c \in MetricCounters |->
                                  IF newmetrics(c) # <<>> THEN newmetrics(c)
                                  ELSE l.metrics[c]]]

\* PodMapper.Process.  Writing into nil Attributes panics.
LblPodMapper ==
    /\ AtStage("PodMapper")
    /\ \E cfg \in PodMapperConfigs, deviceToPod \in [Entities -> PodInfos],
          sharing \in [Entities -> 0..MaxPodsPerDevice], extra \in BOOLEAN :
           LET nilHit(l, hit(_)) == \E m \in Samples(l.metrics) : m.nilAttrs /\ hit(m)
               shared(m) == sharing[m.gpu] > 0
               inPod(m) == deviceToPod[m.gpu].exists
               plain == PodMapperPlain(lbl, cfg, deviceToPod)
           IN  IF cfg.KubernetesVirtualGPUs
               THEN IF nilHit(lbl, shared)
                    THEN lbl' = [lbl EXCEPT !.pc = "panicked"]
                    ELSE lbl' = NextStage(PodMapperFanOut(lbl, cfg, sharing,
                                    (IF cfg.KubernetesEnablePodUID THEN {"pod_uid"} ELSE {})
                                       \cup (IF extra THEN {"vgpu"} ELSE {}), FALSE))
               ELSE IF nilHit(lbl, inPod)
               THEN lbl' = [lbl EXCEPT !.pc = "panicked"]
               ELSE IF ~cfg.KubernetesEnableDRA
               THEN lbl' = NextStage(plain)
               ELSE IF nilHit(plain, shared)
               THEN lbl' = [lbl EXCEPT !.pc = "panicked"]
               ELSE lbl' = NextStage(PodMapperFanOut(plain, cfg, sharing,
                                         IF extra THEN DRAAttributes ELSE {}, TRUE))
    /\ UNCHANGED notLbl

\* WeightedUtil.Process, computeNonMIG: one sample per GPU_UTIL sample, with
\* copies of its maps and the labels calculation_method and DCGM_FI_DEV_UUID;
\* the counter is set only when there is such a sample.
LblWeightedUtil ==
    /\ AtStage("WeightedUtil")
    /\ LET allNewMetrics ==
               MapSamples(lbl.metrics[GpuUtil],
                          LAMBDA m : [m EXCEPT
                              !.shared = FALSE,
                              !.own = Labels(lbl.maps, m)
                                         \cup {"calculation_method", "DCGM_FI_DEV_UUID"}])
       IN  lbl' = NextStage(
                    IF allNewMetrics # <<>>
                    THEN [lbl EXCEPT !.metrics[WeightedTransformation] = allNewMetrics]
                    ELSE lbl)
    /\ UNCHANGED notLbl

\* ProcessMapper.Process with at most one process on a GPU: the samples of
\* GPU_UTIL whose GPU runs a process get a copy of their attributes with the
\* process's in it; the Labels map stays the one it was.  The weighted
\* counter is skipped.
LblProcessMapper ==
    /\ AtStage("ProcessMapper")
    /\ \E collect \in BOOLEAN, procMap \in [Entities -> BOOLEAN] :
           lbl' = NextStage(
                    IF ~collect THEN lbl
                    ELSE [lbl EXCEPT !.metrics[GpuUtil] =
                            MapSamples(@, LAMBDA m :
                                IF procMap[m.gpu]
                                THEN [m EXCEPT !.nilAttrs = FALSE,
                                               !.attrs = @ \cup ProcessAttributes]
                                ELSE m)])
    /\ UNCHANGED notLbl

\* ----------------------------------------------- weighted utilization
\* One gather of GPUs and MIG instances with the three counters the weighted
\* utilization is computed from, through GetMetrics and WeightedUtil.Process.
\* Values are kept in units of 1/Scale, so that the divisions by 100 and by
\* the number of slices are exact; the rounding of float64 is not modelled.
Scale == 100 * 4 * 7

Gpus == 1..NumGpus
EngineActive == "DCGM_FI_PROF_GR_ENGINE_ACTIVE"
MigMaxSlices == "DCGM_FI_DEV_MIG_MAX_SLICES"
WuCounters == {GpuUtil, EngineActive, MigMaxSlices, WeightedCollector, WeightedTransformation}

\* toString gave skipDCGMValue
Skip == -1

\* MIG profile names, character by character; the empty one is that of a
\* sample of the GPU itself.
NoProfile == <<>>
Profiles == {<<"1", "g", ".", "5", "g", "b">>, <<"3", "g", ".", "2", "0", "g", "b">>}

RawUtils == {50, 150}
Activities == {Scale \div 2, Scale}
SliceCounts == {4}

WuEntities == [gpu : Gpus, profile : {NoProfile} \cup Profiles,
               util : {Skip} \cup RawUtils, active : {Skip} \cup Activities,
               maxSlices : {Skip} \cup SliceCounts]

WuInit == [pc |-> "collect", models |-> [g \in Gpus |-> FALSE], entities |-> <<>>,
           metrics |-> [c \in WuCounters |-> <<>>]]

notWu == <<appVars, part, oldParts, lc, col, pm, rl, dw, mg>>

\* A GPU's UUID is its number; Metric.UUID, the name of the UUID label, is 0
\* among them, and NoLabel says that the label DCGM_FI_DEV_UUID is not set.
NoLabel == 0 - 1

\* The samples toMetric makes of entity number i: one per value that is not
\* skipped, with the device's index, UUID and model and the instance's
\* profile and id.  from is the entity the value was read from.
WuSample(c, i, e, v, hseries) ==
    [counter |-> c, gpu |-> e.gpu, GPUUUID |-> e.gpu, UUID |-> 0, hseries |-> hseries,
     MigProfile |-> e.profile, GPUInstanceID |-> IF e.profile = NoProfile THEN 0 ELSE i,
     value |-> v, method |-> "", uuidLabel |-> NoLabel, from |-> i]

RECURSIVE WuToMetrics(_, _, _, _)
WuToMetrics(metrics, entities, models, i) ==
    IF i > Len(entities) THEN metrics
    ELSE LET e == entities[i]
             add(ms, c, v) == IF v = Skip THEN ms
                              ELSE [ms EXCEPT ![c] = Append(@, WuSample(c, i, e, v, models[e.gpu]))]
         IN  WuToMetrics(add(add(add(metrics, GpuUtil, IF e.util = Skip THEN Skip ELSE e.util * Scale),
                                     EngineActive, e.active),
                                 MigMaxSlices, e.maxSlices),
                         entities, models, i + 1)

\* gpuUtil / 100.0
Ratio(val) == val \div 100

\* calculateWeightedGPUUtil with no MIG-mode label configured
\* (calculateNonMIGWeightedUtil): for every GPU the first GPU_UTIL sample in
\* its list, divided by 100, with the method "direct".
WuCollectorWeighted(metrics) ==
    LET first(g) == SelectSeq(metrics[GpuUtil], LAMBDA m : m.gpu = g)
        made(g) == IF first(g) = <<>> THEN <<>>
                   ELSE <<[first(g)[1] EXCEPT !.counter = WeightedCollector,
                                              !.value = Ratio(@),
                                              !.method = "direct",
                                              !.MigProfile = NoProfile,
                                              !.GPUInstanceID = 0]>>
    IN  [metrics EXCEPT ![WeightedCollector] = Flatten([g \in Gpus |-> made(g)])]

\* DCGMCollector.GetMetrics without a read error
WuGetMetrics ==
    /\ part = "weighted"
    /\ wu.pc = "collect"
    /\ \E n \in 1..MaxWuEntities, models \in [Gpus -> BOOLEAN] :
         \E entities \in [1..n -> WuEntities] :
           wu' = [wu EXCEPT !.pc = "transform", !.models = models, !.entities = entities,
                            !.metrics = WuCollectorWeighted(
                                            WuToMetrics(wu.metrics, entities, models, 1))]
    /\ UNCHANGED notWu

HasPrefix(str, prefix) ==
    Len(str) >= Len(prefix) /\ SubSeq(str, 1, Len(prefix)) = prefix

DigitChars == <<"0", "1", "2", "3", "4", "5", "6", "7", "8", "9">>

\* strconv.ParseFloat of a run of decimal digits; 0 stands for its error,
\* which getSlicesFromProfile turns into 0.0 (other forms of a float do not
\* occur before "g." in a profile name)
RECURSIVE ParseDigits(_, _)
ParseDigits(str, acc) ==
    IF str = <<>> THEN acc
    ELSE IF \E d \in 1..10 : DigitChars[d] = Head(str)
    THEN ParseDigits(Tail(str), 10 * acc + (CHOOSE d \in 1..10 : DigitChars[d] = Head(str)) - 1)
    ELSE 0

\* strings.Split(profile, "g.")[0]
BeforeG(str) ==
    LET at == {i \in 1..(Len(str) - 1) : str[i] = "g" /\ str[i + 1] = "."}
    IN  IF at = {} THEN str
        ELSE SubSeq(str, 1, (CHOOSE i \in at : \A j \in at : i <= j) - 1)

\* A faulty variant of getSlicesFromProfile: every instance counts as one slice.
C22_OneSlice(profile) == IF profile = NoProfile THEN 0 ELSE 1

getSlicesFromProfile(profile) ==
    IF HasPrefix(profile, <<"1", "g", ".">>) THEN 1
    ELSE IF HasPrefix(profile, <<"2", "g", ".">>) THEN 2
    ELSE IF HasPrefix(profile, <<"3", "g", ".">>) THEN 3
    ELSE IF HasPrefix(profile, <<"4", "g", ".">>) THEN 4
    ELSE IF HasPrefix(profile, <<"7", "g", ".">>) THEN 7
    ELSE ParseDigits(BeforeG(profile), 0)

\* findHSeriesGPUs: the GPUs of GPU_UTIL samples with an H-series model that
\* have an engine-active sample without a MIG profile.
findHSeriesGPUs(metrics) ==
    {g \in Gpus :
        /\ \E i \in 1..Len(metrics[GpuUtil]) :
               metrics[GpuUtil][i].gpu = g /\ metrics[GpuUtil][i].hseries
        /\ \E i \in 1..Len(metrics[EngineActive]) :
               /\ metrics[EngineActive][i].gpu = g
               /\ metrics[EngineActive][i].MigProfile = NoProfile}

\* if val > 100.0 { val = 100.0 }
CapAt100(val) == IF val > 100 * Scale THEN 100 * Scale ELSE val

\* newMetric.Labels["DCGM_FI_DEV_UUID"] = newMetric.GPUUUID
UUIDLabel(m) == m.GPUUUID

Emit(m, value, method) ==
    [m EXCEPT !.counter = WeightedTransformation, !.value = value,
              !.method = method, !.uuidLabel = UUIDLabel(m)]

computeNonMIG(metrics, hSeriesGPUs) ==
    MapSamples(SelectSeq(metrics[GpuUtil], LAMBDA m : m.gpu \notin hSeriesGPUs),
               LAMBDA m : Emit(m, Ratio(CapAt100(m.value)), "direct"))

computeHSeriesNonMIG(metrics, hSeriesGPUs) ==
    MapSamples(SelectSeq(metrics[EngineActive],
                         LAMBDA m : m.MigProfile = NoProfile /\ m.gpu \in hSeriesGPUs),
               LAMBDA m : Emit(m, m.value, "prof_gr_engine_active"))

RECURSIVE SumValues(_)
SumValues(list) == IF list = <<>> THEN 0 ELSE Head(list) + SumValues(Tail(list))

\* computeMIG: per GPU index the sum of val * (slices / maxSlices) over the
\* engine-active samples whose profile gives a slice count, maxSlices from
\* the last MIG_MAX_SLICES sample of the GPU or 7.0; the new sample is made
\* of that MIG_MAX_SLICES sample when there is one, else of the first
\* engine-active sample of the GPU with its profile and instance id cleared.
computeMIG(metrics) ==
    LET srcMetrics == metrics[EngineActive]
        templates(g) == SelectSeq(metrics[MigMaxSlices], LAMBDA m : m.gpu = g)
        maxSlices(g) == IF templates(g) = <<>> THEN 7
                        ELSE templates(g)[Len(templates(g))].value
        counted(g) == SelectSeq(srcMetrics,
                          LAMBDA m : /\ m.gpu = g
                                     /\ getSlicesFromProfile(m.MigProfile) # 0
                                     /\ maxSlices(g) # 0)
        sum(g) == SumValues(MapSamples(counted(g),
                      LAMBDA m : (m.value * getSlicesFromProfile(m.MigProfile))
                                     \div maxSlices(g)))
        first(g) == SelectSeq(srcMetrics, LAMBDA m : m.gpu = g)[1]
        made(g) == IF counted(g) = <<>> THEN <<>>
                   ELSE IF templates(g) # <<>>
                   THEN <<Emit(templates(g)[Len(templates(g))], sum(g), "weighted_sum")>>
                   ELSE <<Emit([first(g) EXCEPT !.MigProfile = NoProfile,
                                                !.GPUInstanceID = 0],
                               sum(g), "weighted_sum")>>
    IN  Flatten([g \in Gpus |-> made(g)])

\* WeightedUtil.Process
WuProcess ==
    /\ part = "weighted"
    /\ wu.pc = "transform"
    /\ LET hSeriesGPUs == findHSeriesGPUs(wu.metrics)
           allNewMetrics == computeNonMIG(wu.metrics, hSeriesGPUs)
                               \o computeMIG(wu.metrics)
                               \o computeHSeriesNonMIG(wu.metrics, hSeriesGPUs)
       IN  wu' = [wu EXCEPT !.pc = "done",
                            !.metrics = IF allNewMetrics # <<>>
                                        THEN [@ EXCEPT ![WeightedTransformation] = allNewMetrics]
                                        ELSE @]
    /\ UNCHANGED notWu

\* --------------------------------------------------- label filter cache
\* A pattern is kept as whether it compiles and the set of label keys its
\* regular expression matches.
LabelKeys == 1..NumLabelKeys
PatternChoices == [ok : BOOLEAN, matches : SUBSET LabelKeys]

LcInit == [pc |-> "new", patterns |-> <<>>, enabled |-> FALSE, maxSize |-> 0,
           compiledPatterns |-> <<>>, cache |-> {}, lruList |-> <<>>,
           lookups |-> 0, evictions |-> 0,
           last |-> [key |-> 0, result |-> FALSE, hit |-> FALSE]]

notLc == <<appVars, part, oldParts, wu, col, pm, rl, dw, mg>>

\* NewPodMapper, newLabelFilterCache: the size is the configured one or the
\* default; the patterns that compile are kept; without one the filter is off.
LcNew ==
    /\ part = "cache"
    /\ lc.pc = "new"
    /\ \E n \in 0..MaxPatterns, KubernetesPodLabelCacheSize \in 0..MaxCacheSize :
         \E patterns \in [1..n -> PatternChoices] :
           LET cacheSize == IF KubernetesPodLabelCacheSize <= 0 THEN DefaultCacheSize
                            ELSE KubernetesPodLabelCacheSize
               compiled == SelectSeq(patterns, LAMBDA pat : pat.ok)
           IN  lc' = [lc EXCEPT !.pc = "ready", !.patterns = patterns,
                                !.maxSize = cacheSize,
                                !.enabled = (Len(patterns) > 0 /\ Len(compiled) > 0),
                                !.compiledPatterns = compiled]
    /\ UNCHANGED notLc

\* A faulty variant of Evict: the entry stays in the map.
C26_NoDelete(c) == [c EXCEPT !.lruList = SubSeq(@, 1, Len(@) - 1),
                             !.evictions = @ + 1]

\* lruList.Remove(lruList.Back()); delete(cache.cache, oldEntry.key)
Evict(c) == [c EXCEPT !.lruList = SubSeq(@, 1, Len(@) - 1),
                      !.cache = @ \ {c.lruList[Len(c.lruList)].key},
                      !.evictions = @ + 1]

\* PodMapper.shouldIncludeLabel, under the cache's mutex
LcLookup ==
    /\ part = "cache"
    /\ lc.pc = "ready"
    /\ lc.lookups < MaxLookups
    /\ \E labelKey \in LabelKeys :
         LET counted == [lc EXCEPT !.lookups = @ + 1]
             at == CHOOSE i \in 1..Len(lc.lruList) : lc.lruList[i].key = labelKey
             allowed == \E i \in 1..Len(lc.compiledPatterns) :
                            labelKey \in lc.compiledPatterns[i].matches
             room == IF Len(lc.lruList) >= lc.maxSize /\ lc.lruList # <<>>
                     THEN Evict(counted) ELSE counted
         IN  IF ~lc.enabled
             THEN lc' = [counted EXCEPT !.last = [key |-> labelKey, result |-> TRUE,
                                                  hit |-> FALSE]]
             ELSE IF labelKey \in lc.cache
             THEN lc' = [counted EXCEPT
                           !.lruList = <<lc.lruList[at]>>
                                          \o SubSeq(lc.lruList, 1, at - 1)
                                          \o SubSeq(lc.lruList, at + 1, Len(lc.lruList)),
                           !.last = [key |-> labelKey, result |-> lc.lruList[at].value,
                                     hit |-> TRUE]]
             ELSE lc' = [room EXCEPT
                           !.lruList = <<[key |-> labelKey, value |-> allowed]>> \o @,
                           !.cache = @ \cup {labelKey},
                           !.last = [key |-> labelKey, result |-> allowed, hit |-> FALSE]]
    /\ UNCHANGED notLc

\* ------------------------------------------- collector: field values
\* A field value is its field type and its content; the content is either
\* one of the library's sentinel constants, kept by name, or an ordinary value.
FieldTypes == {"DCGM_FT_INT64", "DCGM_FT_DOUBLE", "DCGM_FT_STRING", "DCGM_FT_TIMESTAMP"}
SentinelKinds == {"BLANK", "NOT_FOUND", "NOT_SUPPORTED", "NOT_PERMISSIONED"}
Int32Sentinels == {"DCGM_FT_INT32_" \o k : k \in SentinelKinds}
Int64Sentinels == {"DCGM_FT_INT64_" \o k : k \in SentinelKinds}
Fp64Sentinels == {"DCGM_FT_FP64_" \o k : k \in SentinelKinds}
StrSentinels == {"DCGM_FT_STR_" \o k : k \in SentinelKinds}
skipDCGMValue == "SKIPPING DCGM VALUE"
FailedToConvert == "ERROR - FAILED TO CONVERT TO STRING"

Contents(type) ==
    CASE type = "DCGM_FT_INT64" -> Int32Sentinels \cup Int64Sentinels \cup {"7"}
      [] type = "DCGM_FT_DOUBLE" -> Fp64Sentinels \cup {"0.5"}
      [] type = "DCGM_FT_STRING" -> StrSentinels \cup {"A100"}
      [] OTHER -> {"7"}

\* The counters of the configuration: a gauge and a label; UnknownField is a
\* field no counter is configured for.
ColGauge == "DCGM_FI_DEV_GPU_TEMP"
ColLabel == "DCGM_FI_DRIVER_VERSION"
UnknownField == "unknown"
Fields == {ColGauge, ColLabel, UnknownField}
FieldValuesOf == UNION {[FieldID : Fields, FieldType : {t}, content : Contents(t)] :
                           t \in FieldTypes}
InfoTypes == {"FE_GPU", "FE_SWITCH", "FE_LINK", "FE_CPU", "FE_CPU_CORE"}

ColInit == [pc |-> "idle", InfoType |-> "FE_GPU", vals |-> <<>>,
            labels |-> {}, metrics |-> <<>>]

notCol == <<appVars, part, oldParts, wu, lc, pm, rl, dw, mg>>

toString(value) ==
    CASE value.FieldType = "DCGM_FT_INT64" ->
             IF value.content \in Int32Sentinels \cup Int64Sentinels
             THEN skipDCGMValue ELSE value.content
      [] value.FieldType = "DCGM_FT_DOUBLE" ->
             IF value.content \in Fp64Sentinels
             THEN skipDCGMValue ELSE value.content \o "00000"
      [] value.FieldType = "DCGM_FT_STRING" ->
             IF value.content \in StrSentinels
             THEN skipDCGMValue ELSE value.content
      [] OTHER -> FailedToConvert

\* labels[counter.FieldName] = v
SetLabel(labels, name, v, i) ==
    {l \in labels : l.name # name} \cup {[name |-> name, value |-> v, from |-> i]}

\* The loop of toMetric from value i on: acc holds the entity's label map and
\* the samples appended so far. Every sample of the entity refers to the
\* one label map.
RECURSIVE ColToMetric(_, _, _)
ColToMetric(vals, i, acc) ==
    IF i > Len(vals) THEN acc
    ELSE LET v == toString(vals[i])
         IN  IF v = skipDCGMValue THEN ColToMetric(vals, i + 1, acc)
             ELSE IF vals[i].FieldID = UnknownField THEN ColToMetric(vals, i + 1, acc)
             ELSE IF vals[i].FieldID = ColLabel
             THEN ColToMetric(vals, i + 1,
                      [acc EXCEPT !.labels = SetLabel(@, ColLabel, v, i)])
             ELSE ColToMetric(vals, i + 1,
                      [acc EXCEPT !.metrics = Append(@,
                          [Counter |-> vals[i].FieldID, Value |-> v, from |-> i])])

\* The loop of toSwitchMetric and of toCPUMetric, which differ in the device
\* name of the sample only.
RECURSIVE toSwitchMetric(_, _, _)
toSwitchMetric(vals, i, acc) ==
    IF i > Len(vals) THEN acc
    ELSE LET v == toString(vals[i])
         IN  IF vals[i].FieldID = UnknownField THEN toSwitchMetric(vals, i + 1, acc)
             ELSE IF vals[i].FieldID = ColLabel
             THEN toSwitchMetric(vals, i + 1,
                      [acc EXCEPT !.labels = SetLabel(@, ColLabel, v, i)])
             ELSE IF v = skipDCGMValue THEN toSwitchMetric(vals, i + 1, acc)
             ELSE toSwitchMetric(vals, i + 1,
                      [acc EXCEPT !.metrics = Append(@,
                          [Counter |-> vals[i].FieldID, Value |-> v, from |-> i])])

toCPUMetric(vals, i, acc) == toSwitchMetric(vals, i, acc)

\* DCGMCollector.GetMetrics for one monitored entity
ColGetMetrics ==
    /\ part = "collector"
    /\ col.pc = "idle"
    /\ \E InfoType \in InfoTypes, n \in 0..MaxFieldValues :
         \E vals \in [1..n -> FieldValuesOf] :
           LET empty == [labels |-> {}, metrics |-> <<>>]
               out == CASE InfoType \in {"FE_SWITCH", "FE_LINK"} ->
                               toSwitchMetric(vals, 1, empty)
                        [] InfoType \in {"FE_CPU", "FE_CPU_CORE"} ->
                               toCPUMetric(vals, 1, empty)
                        [] OTHER -> ColToMetric(vals, 1, empty)
           IN  col' = [pc |-> "done", InfoType |-> InfoType, vals |-> vals,
                       labels |-> out.labels, metrics |-> out.metrics]
    /\ UNCHANGED notCol

\* ------------------------------------------------------ Process-Mapper
\* A field name is a sequence of pieces of text, so that one name can begin
\* with another. Three of the twelve prefixes of the source are kept.
processRelevantPrefixes ==
    {<<GpuUtil>>, <<"DCGM_FI_DEV_FB_USED">>, <<EngineActive>>}
PmCounters == {<<GpuUtil>>, <<GpuUtil, "_SAMPLES">>, <<GpuTemp>>,
               <<WeightedTransformation>>}

\* UUIDs of the part: the physical GPU, a MIG instance named by a label, one
\* named by an attribute. A label or attribute may be absent or empty.
Absent == "(absent)"
EmptyString == ""
PhysicalUUID == "GPU-0"
LabelUUID == "MIG-1"
AttributeUUID == "MIG-2"

PmSamples == [FieldName : PmCounters, GPUUUID : {PhysicalUUID},
              label : {Absent, EmptyString, LabelUUID},
              attribute : {Absent, EmptyString, AttributeUUID}]
GPUProcessInfos == {[UUID |-> PhysicalUUID, ParentUUID |-> EmptyString],
                    [UUID |-> LabelUUID, ParentUUID |-> PhysicalUUID],
                    [UUID |-> LabelUUID, ParentUUID |-> EmptyString],
                    [UUID |-> AttributeUUID, ParentUUID |-> EmptyString],
                    [UUID |-> EmptyString, ParentUUID |-> PhysicalUUID]}

PmInit == [pc |-> "idle", CollectProcessInfo |-> FALSE, err |-> FALSE,
           processes |-> <<>>,
           input |-> [c \in PmCounters |-> <<>>],
           metrics |-> [c \in PmCounters |-> <<>>]]

notPm == <<appVars, part, oldParts, wu, lc, col, rl, dw, mg>>

isProcessRelevant(fieldName) ==
    \E prefix \in processRelevantPrefixes : HasPrefix(fieldName, prefix)

\* procMap[uuid]: the processes indexed under uuid, by their place in the list
procMap(processes, uuid) ==
    SelectSeq([k \in 1..Len(processes) |-> k],
              LAMBDA k : \/ processes[k].UUID # EmptyString /\ processes[k].UUID = uuid
                         \/ /\ processes[k].ParentUUID # EmptyString
                            /\ processes[k].ParentUUID # processes[k].UUID
                            /\ processes[k].ParentUUID = uuid)

\* A faulty variant of searchUUID: the GPU's UUID, whatever the sample says.
C28_PhysicalOnly(m) == m.GPUUUID

searchUUID(m) ==
    IF m.label # Absent /\ m.label # EmptyString THEN m.label
    ELSE IF m.attribute # Absent /\ m.attribute # EmptyString THEN m.attribute
    ELSE m.GPUUUID

\* newMetrics of one counter: a sample without processes as it is, the others
\* once per process with the process's attributes set
RECURSIVE newMetrics(_, _)
newMetrics(metricList, processes) ==
    IF metricList = <<>> THEN <<>>
    ELSE LET m == Head(metricList)
             procs == procMap(processes, searchUUID(m))
         IN  (IF procs = <<>> THEN <<m>>
              ELSE [k \in 1..Len(procs) |-> [m EXCEPT !.pid = procs[k]]])
             \o newMetrics(Tail(metricList), processes)

\* ProcessMapper.Process on one gather; a sample carries the place it had in
\* the gather (from) and the process it was copied for (pid, 0 for none).
PmProcess ==
    /\ part = "process"
    /\ pm.pc = "idle"
    /\ \E CollectProcessInfo \in BOOLEAN, err \in BOOLEAN,
          n \in 0..MaxPmSamples, np \in 0..MaxProcesses :
         \E gathered \in [1..n -> PmSamples], processes \in [1..np -> GPUProcessInfos] :
           LET all == [i \in 1..n |->
                         [FieldName |-> gathered[i].FieldName,
                          GPUUUID |-> gathered[i].GPUUUID,
                          label |-> gathered[i].label,
                          attribute |-> gathered[i].attribute,
                          from |-> i, pid |-> 0]]
               input == [c \in PmCounters |-> SelectSeq(all, LAMBDA m : m.FieldName = c)]
           IN  /\ (~CollectProcessInfo => ~err /\ np = 0)
               /\ (err => np = 0)
               /\ pm' = [pc |-> "done", CollectProcessInfo |-> CollectProcessInfo,
                         err |-> err, processes |-> processes, input |-> input,
                         metrics |->
                           IF ~CollectProcessInfo \/ err THEN input
                           ELSE [c \in PmCounters |->
                                   IF c = <<WeightedTransformation>> THEN input[c]
                                   ELSE IF ~isProcessRelevant(c) THEN input[c]
                                   ELSE newMetrics(input[c], processes)]]
    /\ UNCHANGED notPm

\* ------------------------------------------- rate limit of the reloads
\* The two safeguards of hotReload and of handleGPUTopologyChange on the
\* shared lastReloadTime and the in-flight flag, with the requests arriving
\* one at a time: a request runs its safeguards before the next one starts,
\* and a reload that was let through ends at RlDone.  The part keeps, next to
\* the program's state, when the last reload was let through (lastReloadAt)
\* and what became of the last request (req).
RlInit == [now |-> BootTime, lastReloadTime |-> 0, reloadInProgress |-> FALSE,
           lastReloadAt |-> Nil,
           req |-> [kind |-> "none", at |-> BootTime, inFlight |-> FALSE,
                    prevAt |-> Nil, performed |-> FALSE]]

notRl == <<appVars, part, oldParts, wu, lc, col, pm, dw, mg>>

RlTick ==
    /\ part = "ratelimit"
    /\ rl.now < BootTime + MaxElapsed
    /\ rl' = [rl EXCEPT !.now = @ + 1]
    /\ UNCHANGED notRl

RlRequest(kind, performed) ==
    [kind |-> kind, at |-> rl.now, inFlight |-> rl.reloadInProgress,
     prevAt |-> rl.lastReloadAt, performed |-> performed]

\* hotReload up to server.SetReloadInProgress(true)
RlHotReload ==
    /\ part = "ratelimit"
    /\ IF rl.reloadInProgress \/ HotRateLimited(rl.now, rl.lastReloadTime)
       THEN rl' = [rl EXCEPT !.req = RlRequest("hot", FALSE)]
       ELSE rl' = [rl EXCEPT !.lastReloadTime = HotStamp(rl.now),
                             !.reloadInProgress = TRUE,
                             !.lastReloadAt = rl.now,
                             !.req = RlRequest("hot", TRUE)]
    /\ UNCHANGED notRl

\* handleGPUTopologyChange up to server.SetReloadInProgress(true)
RlTopologyChange ==
    /\ part = "ratelimit"
    /\ IF TopoRateLimited(rl.now, rl.lastReloadTime)
       THEN rl' = [rl EXCEPT !.req = RlRequest("topology", FALSE)]
       ELSE IF rl.reloadInProgress
       THEN rl' = [rl EXCEPT !.lastReloadTime = TopoStamp(rl.now),
                             !.req = RlRequest("topology", FALSE)]
       ELSE rl' = [rl EXCEPT !.lastReloadTime = TopoStamp(rl.now),
                             !.reloadInProgress = TRUE,
                             !.lastReloadAt = rl.now,
                             !.req = RlRequest("topology", TRUE)]
    /\ UNCHANGED notRl

\* the deferred server.SetReloadInProgress(false) of either reload
RlDone ==
    /\ part = "ratelimit"
    /\ rl.reloadInProgress
    /\ rl' = [rl EXCEPT !.reloadInProgress = FALSE]
    /\ UNCHANGED notRl

\* --------------------------------------------------------- DeviceWatcher
\* One watch list: the calls WatchDeviceFields and WatchResources.Cleanup
\* make on the device library are kept in order in `calls`; a group is named
\* by its place in the order of creation.  A watch list is made for one kind
\* of entity; `members` gives, for each GPU, switch or CPU, its number of
\* watched links or cores (for the other kinds, of monitored entities).
InfoKinds == {"FE_GPU", "FE_LINK", "FE_CPU_CORE"}
Steps == {"CreateGroup", "AddEntityToGroup", "FieldGroupCreate", "WatchFields"}
NoFailure == [step |-> "none", k |-> 0]
Failures == {NoFailure} \cup [step : Steps, k : 1..MaxMembers]

NoResources == [groups |-> <<>>, fieldGroup |-> FALSE, hasWatch |-> FALSE]

DwInit == [pc |-> "idle", InfoType |-> "FE_GPU", members |-> <<>>,
           groups |-> <<>>, resources |-> NoResources, calls |-> <<>>,
           built |-> 0, clientNil |-> FALSE]

notDw == <<appVars, part, oldParts, wu, lc, col, pm, rl, mg>>

Call(op, group) == [op |-> op, group |-> group]
Calls(op, n) == [g \in 1..n |-> Call(op, g)]

\* A faulty variant of coreGroupSizes: one group for all the cores of a CPU.
C33_OneGroupPerCPU(count) == IF count = 0 THEN <<>> ELSE <<count>>

\* createCPUCoreGroups, one CPU: a new group is opened when the count of the
\* cores added is a multiple of DCGM_GROUP_MAX_ENTITIES
RECURSIVE coreGroupSizes(_)
coreGroupSizes(count) ==
    IF count = 0 THEN <<>>
    ELSE IF count <= DCGM_GROUP_MAX_ENTITIES THEN <<count>>
    ELSE <<DCGM_GROUP_MAX_ENTITIES>> \o coreGroupSizes(count - DCGM_GROUP_MAX_ENTITIES)

\* createNVLinkGroups, one GPU or switch: a group is opened at the first
\* link and every link is added to it; a link the library refuses is logged
\* and left out.
linkGroupSizes(count, refused) ==
    IF count = 0 THEN <<>>
    ELSE IF refused /\ count > DCGM_GROUP_MAX_ENTITIES THEN <<DCGM_GROUP_MAX_ENTITIES>>
    ELSE <<count>>

\* The groups of a watch list, in the order of creation: each with the GPU,
\* switch or CPU it is made for and the number of entities added to it.
RECURSIVE createGroups(_, _, _, _)
createGroups(InfoType, members, i, refused) ==
    IF i > Len(members) THEN <<>>
    ELSE LET sizes == IF InfoType = "FE_CPU_CORE" THEN coreGroupSizes(members[i])
                      ELSE linkGroupSizes(members[i], refused)
         IN  [g \in 1..Len(sizes) |-> [parent |-> i, size |-> sizes[g]]]
             \o createGroups(InfoType, members, i + 1, refused)

\* createGenericGroup: one group with every monitored entity, none without
createGenericGroup(members) ==
    IF SumValues(members) = 0 THEN <<>>
    ELSE <<[parent |-> 0, size |-> SumValues(members)]>>

\* A faulty variant of Cleanup: the groups are destroyed first.
C31_GroupsFirst(r, clientNil) ==
    IF clientNil THEN <<>>
    ELSE Calls("DestroyGroup", Len(r.groups))
         \o (IF r.fieldGroup THEN <<Call("FieldGroupDestroy", 0)>> ELSE <<>>)
         \o (IF r.hasWatch /\ r.fieldGroup
             THEN Calls("UnwatchFields", Len(r.groups)) ELSE <<>>)

\* WatchResources.Cleanup: the calls it makes
Cleanup(r, clientNil) ==
    IF clientNil THEN <<>>
    ELSE (IF r.hasWatch /\ r.fieldGroup
          THEN Calls("UnwatchFields", Len(r.groups)) ELSE <<>>)
         \o (IF r.fieldGroup THEN <<Call("FieldGroupDestroy", 0)>> ELSE <<>>)
         \o Calls("DestroyGroup", Len(r.groups))

\* DeviceWatcher.WatchDeviceFields.  `failure` names the library call that
\* returns an error, if one does: the k-th call of its kind.  The create
\* functions destroy the groups they made when they fail (a refused link is
\* only logged); after that WatchDeviceFields runs Cleanup on what it holds.
DwWatchDeviceFields ==
    /\ part = "watchlist"
    /\ dw.pc = "idle"
    /\ \E InfoType \in InfoKinds, n \in 1..MaxParents, failure \in Failures,
          refused \in BOOLEAN :
         \E members \in [1..n -> 0..MaxMembers] :
           LET groups == IF InfoType = "FE_GPU" THEN createGenericGroup(members)
                         ELSE createGroups(InfoType, members, 1, refused)
               ng == Len(groups)
               k == failure.k
               createFails ==
                   \/ failure.step = "CreateGroup" /\ k <= ng
                   \/ failure.step = "AddEntityToGroup" /\ k <= ng /\ InfoType # "FE_LINK"
               made == IF failure.step = "CreateGroup" THEN k - 1 ELSE k
               held == [groups |-> groups, fieldGroup |-> FALSE, hasWatch |-> FALSE]
               start == [dw EXCEPT !.InfoType = InfoType, !.members = members]
           IN  IF createFails
               THEN dw' = [start EXCEPT !.pc = "failed",
                              !.calls = Calls("CreateGroup", made)
                                           \o Calls("DestroyGroup", made)
                                           \o Cleanup(NoResources, FALSE)]
               ELSE IF ng = 0
               THEN dw' = [start EXCEPT !.pc = "none"]
               ELSE IF failure.step = "FieldGroupCreate"
               THEN dw' = [start EXCEPT !.pc = "failed", !.groups = groups,
                              !.resources = held,
                              !.calls = Calls("CreateGroup", ng) \o Cleanup(held, FALSE)]
               ELSE IF failure.step = "WatchFields" /\ k <= ng
               THEN dw' = [start EXCEPT !.pc = "failed", !.groups = groups,
                              !.resources = [held EXCEPT !.fieldGroup = TRUE],
                              !.calls = Calls("CreateGroup", ng)
                                           \o <<Call("FieldGroupCreate", 0)>>
                                           \o Calls("WatchFields", k - 1)
                                           \o Cleanup([held EXCEPT !.fieldGroup = TRUE],
                                                      FALSE)]
               ELSE dw' = [start EXCEPT !.pc = "watching", !.groups = groups,
                              !.resources = [groups |-> groups, fieldGroup |-> TRUE,
                                             hasWatch |-> TRUE],
                              !.calls = Calls("CreateGroup", ng)
                                           \o <<Call("FieldGroupCreate", 0)>>
                                           \o Calls("WatchFields", ng),
                              !.built = ng + 1 + ng]
    /\ UNCHANGED notDw

\* The cleanup function WatchDeviceFields returned is called.
DwCleanup ==
    /\ part = "watchlist"
    /\ dw.pc = "watching"
    /\ \E clientNil \in BOOLEAN :
         dw' = [dw EXCEPT !.pc = "cleaned", !.clientNil = clientNil,
                          !.calls = @ \o Cleanup(dw.resources, clientNil)]
    /\ UNCHANGED notDw

\* ------------------------------------------- Registry.Gather, the merge
\* The goroutines of the collectors of one entity group, each with samples
\* of the same counter: the entry of the sync.Map for (group, counter) is
\* read with LoadOrStore, the goroutine's samples are appended to what was
\* read, and the result is written with Store.  The two calls are atomic,
\* each by itself.  A sample is named by the collector it comes from.
MgInit == [pc |-> [c \in Collectors |-> "load"],
           out |-> [c \in Collectors |-> {}],
           sm |-> [present |-> FALSE, value |-> {}],
           returned |-> FALSE, output |-> {}]

notMg == <<appVars, part, oldParts, wu, lc, col, pm, rl, dw>>

\* val, _ := sm.LoadOrStore(key, []collector.Metric{}); out := val
MgLoadOrStore ==
    /\ part = "merge"
    /\ \E c \in Collectors :
         /\ mg.pc[c] = "load"
         /\ mg' = [mg EXCEPT !.pc[c] = "store",
                             !.out[c] = IF mg.sm.present THEN mg.sm.value ELSE {},
                             !.sm = IF mg.sm.present THEN mg.sm
                                    ELSE [present |-> TRUE, value |-> {}]]
    /\ UNCHANGED notMg

\* out = append(out, metricVals...); sm.Store(key, out); return nil
MgStore ==
    /\ part = "merge"
    /\ \E c \in Collectors :
         /\ mg.pc[c] = "store"
         /\ mg' = [mg EXCEPT !.pc[c] = "done",
                             !.sm = [present |-> TRUE, value |-> mg.out[c] \cup {c}]]
    /\ UNCHANGED notMg

\* g.Wait() returns nil and the output is read from the map with sm.Range
MgWait ==
    /\ part = "merge"
    /\ ~mg.returned
    /\ \A c \in Collectors : mg.pc[c] = "done"
    /\ mg' = [mg EXCEPT !.returned = TRUE, !.output = mg.sm.value]
    /\ UNCHANGED notMg

\* ------------------------------------------------------------ Init, Next
PartsInit ==
    /\ srv = SrvInit
    /\ gth = GthInit
    /\ fw = FwInit
    /\ gw = GwInit
    /\ tw = TwInit
    /\ lbl = LblInit
    /\ wu = WuInit
    /\ lc = LcInit
    /\ col = ColInit
    /\ pm = PmInit
    /\ rl = RlInit
    /\ dw = DwInit
    /\ mg = MgInit

Init == AppInit /\ part = "app" /\ PartsInit

\* ------------------------------------------------------------------- Next
\* The reload coordinator.
Next ==
    \/ Tick
    \/ Sighup
    \/ EditFile
    \/ FileNotify
    \/ GpuEvent
    \/ Sigterm
    \/ StopServer
    \/ ShutdownLib
    \/ Exit
    \/ \E t \in Reloaders :
         \/ CleanupSet(t)
         \/ CleanupPoll(t)
         \/ CleanupLockReq(t)
         \/ CleanupLock(t)
         \/ CleanupCollectors(t)
         \/ CleanupPanic(t)
         \/ HotCheck(t)
         \/ HotRate(t)
         \/ HotStore(t)
         \/ HotSet(t)
         \/ HotClear(t)
         \/ HotBuild(t)
         \/ HotPublish(t)
         \/ HotPending(t)
         \/ HotPendingClear(t)
         \/ HotPanic(t)
         \/ HotUnset(t)
         \/ TopoBump(t)
         \/ TopoRate(t)
         \/ TopoStore(t)
         \/ TopoCheck(t)
         \/ TopoQueue(t)
         \/ TopoSet(t)
         \/ TopoClear(t)
         \/ TopoLibCleanup(t)
         \/ TopoLibInit(t)
         \/ TopoQuery(t)
         \/ TopoBuild(t)
         \/ TopoPublish(t)
         \/ TopoPanic(t)
         \/ TopoUnset(t)

Spec == Init /\ [][Next]_vars

\* The scrape path against the reloads.
NextScrape ==
    \/ Sighup
    \/ GpuEvent
    \/ \E s \in Scrapers :
         \/ ScrapeStart(s)
         \/ GatherCall(s)
         \/ GatherCheck1(s)
         \/ GatherInc(s)
         \/ GatherRLock(s)
         \/ GatherCheck2(s)
         \/ GatherWait(s)
         \/ GatherRUnlock(s)
         \/ GatherDec(s)
    \/ \E t \in Reloaders :
         \/ CleanupSet(t)
         \/ CleanupPoll(t)
         \/ CleanupLockReq(t)
         \/ CleanupLock(t)
         \/ CleanupCollectors(t)
         \/ CleanupPanic(t)
         \/ HotCheck(t)
         \/ HotRate(t)
         \/ HotStore(t)
         \/ HotSet(t)
         \/ HotClear(t)
         \/ HotBuild(t)
         \/ HotPublish(t)
         \/ HotPending(t)
         \/ HotPendingClear(t)
         \/ HotPanic(t)
         \/ HotUnset(t)
         \/ TopoBump(t)
         \/ TopoRate(t)
         \/ TopoStore(t)
         \/ TopoCheck(t)
         \/ TopoQueue(t)
         \/ TopoSet(t)
         \/ TopoClear(t)
         \/ TopoLibCleanup(t)
         \/ TopoLibInit(t)
         \/ TopoQuery(t)
         \/ TopoBuild(t)
         \/ TopoPublish(t)
         \/ TopoPanic(t)
         \/ TopoUnset(t)

SpecScrape == Init /\ [][NextScrape]_vars

\* Scrapes against hot reloads with the clock running, so that the wait of
\* Registry.Cleanup can reach its time limit while a gather is active.
NextDrain ==
    \/ Sighup
    \/ Tick
    \/ \E s \in Scrapers :
         \/ ScrapeStart(s)
         \/ GatherCall(s)
         \/ GatherCheck1(s)
         \/ GatherInc(s)
         \/ GatherRLock(s)
         \/ GatherCheck2(s)
         \/ GatherWait(s)
         \/ GatherRUnlock(s)
         \/ GatherDec(s)
    \/ \E t \in Reloaders :
         \/ CleanupSet(t)
         \/ CleanupPoll(t)
         \/ CleanupLockReq(t)
         \/ CleanupLock(t)
         \/ CleanupCollectors(t)
         \/ CleanupPanic(t)
         \/ HotCheck(t)
         \/ HotRate(t)
         \/ HotStore(t)
         \/ HotSet(t)
         \/ HotClear(t)
         \/ HotBuild(t)
         \/ HotPublish(t)
         \/ HotPending(t)
         \/ HotPanic(t)
         \/ HotUnset(t)

SpecDrain == Init /\ [][NextDrain]_vars

\* The parts, one per behaviour.
InitParts ==
    /\ AppInit
    /\ enableGPUWatch
    /\ profilingOK
    /\ part \in Parts
    /\ PartsInit

NextParts ==
    \/ SrvSetRegistry
    \/ SrvClearRegistry
    \/ SrvGetRegistry
    \/ GthCollector
    \/ GthWait
    \/ FwTick
    \/ FwWrite
    \/ FwRemove
    \/ FwCancel
    \/ FwSetup
    \/ FwDone
    \/ FwEvent
    \/ FwTimer
    \/ FwError
    \/ GwSample
    \/ GwCancel
    \/ GwCreate
    \/ GwWatchFields
    \/ GwInitRead
    \/ GwDone
    \/ GwPoll
    \/ TwStart
    \/ TwCancel
    \/ TwDone
    \/ TwPollFailed
    \/ TwPoll
    \/ LblGetMetrics
    \/ LblPodMapper
    \/ LblWeightedUtil
    \/ LblProcessMapper
    \/ WuGetMetrics
    \/ WuProcess
    \/ LcNew
    \/ LcLookup
    \/ ColGetMetrics
    \/ PmProcess
    \/ RlTick
    \/ RlHotReload
    \/ RlTopologyChange
    \/ RlDone
    \/ DwWatchDeviceFields
    \/ DwCleanup
    \/ MgLoadOrStore
    \/ MgStore
    \/ MgWait

SpecParts == InitParts /\ [][NextParts]_vars

\* A select picks among its ready cases at random, so a case that is ready
\* again and again is taken in the end.
SpecPartsFair == SpecParts /\ SF_vars(FwDone) /\ SF_vars(GwDone)

\* ------------------------------------------------------------- vocabulary
Range(seq) == {seq[i] : i \in 1..Len(seq)}

IsPrefix(a, b) == Len(a) <= Len(b) /\ \A i \in 1..Len(a) : a[i] = b[i]

Without(seq, x) == SelectSeq(seq, LAMBDA e : e # x)

\* Thread t is inside a reload: between the step that sets the in-flight
\* flag and the return of the call that set it.
InFlight(t) == loc[t].steps # <<>> /\ loc[t].steps[1] \in {"hot", "topo"}

\* Thread t has cleared the registry and has not published yet.
Rebuilding(t) ==
    /\ InFlight(t)
    /\ "clear" \in Range(loc[t].steps)
    /\ "publish" \notin Range(loc[t].steps)

HotOrder == <<"hot", "clear", "drain", "rebuild", "publish">>

TopoOrder == <<"topo", "clear", "drain", "libCleanup", "libInit", "reQuery",
               "rebuild", "publish">>

\* The values the variables range over.
TypeOK ==
    /\ nextReg \in 1..(2 * MaxTriggers + 1)
    /\ \A r \in RegIds : activeGathers[r] \in 0..NumScrapers /\ readers[r] \in 0..NumScrapers
    /\ serverRegistry \in RegIds \cup {Nil}
    /\ \A t \in Reloaders : loc[t].oldRegistry \in RegIds \cup {Nil}
    /\ now \in BootTime..(BootTime + MaxElapsed)

\* ------------------------------------------------------------------ C1
\* C1: once Cleanup() has set the shutting-down flag of a registry, a Gather()
\* on that registry that starts afterwards returns ErrRegistryShuttingDown at
\* its first check and never reaches a collector.
C1_LateGatherRefused ==
    \A s \in Scrapers :
        sLate[s] => \/ spc[s] = "g_check1" /\ sres[s] = "none"
                    \/ spc[s] = "idle" /\ sres[s] = "shutdown"

\* A Gather that started after the flag was set has returned the error.
C1_Witness ==
    \E s \in Scrapers : sLate[s] /\ spc[s] = "idle" /\ sres[s] = "shutdown"

\* ------------------------------------------------------------------ C2
\* C2 (as claimed): no Gather is inside its collectors on a registry that a
\* reload which has published has replaced.
C2_NoGatherOnReplaced ==
    \A s \in Scrapers : spc[s] = "g_collect" => ~superseded[sreg[s]]

C4_ReloadOrder ==
    \A t \in Reloaders :
        InFlight(t) =>
            LET full == IF loc[t].steps[1] = "hot" THEN HotOrder ELSE TopoOrder
            IN  \/ IsPrefix(loc[t].steps, full)
                \/ /\ loc[t].oldRegistry = Nil
                   /\ IsPrefix(loc[t].steps, Without(full, "drain"))

\* A topology reload has done all of its steps.
C4_Witness == \E t \in Reloaders : loc[t].steps = TopoOrder

\* ------------------------------------------------------------------ C5
\* C5 (as claimed): when a hot reload found a queued topology event, a
\* topology reload has been performed for it by the time the hot reload
\* returns.
C5_QueuedEventReloaded ==
    \A t \in HotThreads :
        (pc[t] = "h_unset" /\ loc[t].sawPending /\ ~panicked[t] /\ Alive)
            => loc[t].steps[1] = "topo"

\* ------------------------------------------------------------------ C6
\* C6 (as claimed): no hot-reload request passes the rate limit less than
\* minReloadInterval of real time after the request of the previous hot
\* reload that was performed (that published its registry).
C6_HotReloadsSpaced == ~tooSoon

\* ------------------------------------------------------------------ C7
\* C7 (as claimed): at most one reload is between setting and clearing the
\* in-flight flag at any time.
C7_SingleFlight == Cardinality({t \in Reloaders : InFlight(t)}) <= 1

\* ------------------------------------------------------------------ C8
\* C8: a panic in a hot reload does not leave hotReload: the call returns an
\* error, the process is not ended by the panic, and the in-flight flag is
\* set only while some reload is in flight.
C8_PanicContained ==
    /\ \A t \in HotThreads : (pc[t] = "idle" /\ panicked[t]) => result[t] = "err"
    /\ exitCause[1] = "panic" => exitCause[2] \notin HotThreads
    /\ reloadInProgress => \E t \in Reloaders : InFlight(t)

\* A hot reload has panicked and returned; the process runs, the flag is false.
C8_Witness ==
    \E t \in HotThreads :
        /\ pc[t] = "idle" /\ panicked[t] /\ result[t] = "err"
        /\ proc = "running"
        /\ ~reloadInProgress

\* ------------------------------------------------------------------ C9
\* C9 (as claimed): a published registry that a hot reload built with the
\* counters file and the library as they were at boot is built from the
\* configuration of the boot registry.
C9_SameAsBoot ==
    \A r \in RegIds :
        (r = serverRegistry /\ regConf[r].file = 0 /\ regConf[r].lib = 1)
            => /\ regConf[r].dcp = regConf[0].dcp
               /\ regConf[r].groups = regConf[0].groups

\* ------------------------------------------------------------------ C10
\* C10 (as claimed): a SIGHUP never ends the process.
C10_SighupNeverExits ==
    ~(exitCause[1] = "os.Exit" /\ exitCause[2] = "sig" /\ exitCause[3] = "hot")

\* ------------------------------------------------------------------ C11
\* C11: whatever the order of the SetRegistry, ClearRegistry and GetRegistry
\* calls on one MetricsServer, GetRegistry never returns nil (it returns the
\* stored registry, or the empty fallback when none is stored), and
\* ClearRegistry returns what was stored and leaves nothing stored.
C11_GetNeverNil ==
    part = "server" =>
        /\ srv.got # Nil
        /\ srv.op = "get" =>
               srv.got = (IF srv.before = Nil THEN EmptyRegistry ELSE srv.before)
        /\ srv.op = "clear" => srv.cleared = srv.before /\ srv.registry = Nil

\* A GetRegistry that found nothing stored (after a ClearRegistry that
\* returned a registry) has returned the fallback.
C11_Witness ==
    /\ part = "server"
    /\ srv.op = "get" /\ srv.before = Nil /\ srv.got = EmptyRegistry
    /\ srv.cleared # Nil

\* ------------------------------------------------------------------ C12
\* C12: when a collector's GetMetrics returned an error during a Gather, the
\* Gather returns the error of a collector that failed and no metrics at all,
\* whatever the other collectors returned; with no error it returns the
\* metrics of every collector.
C12_ErrorMeansNoMetrics ==
    (part = "gather" /\ gth.pc = "returned") =>
        IF gth.failed # {}
        THEN gth.err \in gth.failed /\ gth.metrics = {}
        ELSE gth.err = 0 /\ gth.metrics = Collectors

\* A Gather in which one collector failed and another succeeded has returned.
C12_Witness ==
    /\ part = "gather" /\ gth.pc = "returned"
    /\ gth.failed # {} /\ gth.sm # {}
    /\ gth.metrics = {} /\ gth.err # 0

\* ------------------------------------------------------------------ C14
\* C14: FileWatcher calls onChange only when the debounce timer expires, that
\* is debounceDelay or more after the last matching event it received, and
\* only if the file's mtime then differs from lastModTime, which it sets to
\* that mtime; after a matching event there is at most one onChange until the
\* next matching event (so a burst of events less than debounceDelay apart
\* gives at most one); an event for another file, or outside the event mask,
\* leaves the timer as it was.
C14_Debounced ==
    /\ [](part = "file" => fw.sinceEvent <= 1)
    /\ [][(part = "file" /\ fw'.onChanges # fw.onChanges) =>
              /\ fw.timerCh
              /\ fw.now >= fw.lastEventAt + debounceDelay
              /\ fw.exists
              /\ fw.mtime # fw.lastModTime
              /\ fw'.lastModTime = fw.mtime
              /\ fw'.onChanges = fw.onChanges + 1
              /\ ~fw'.timerCh]_vars
    /\ [][(part = "file" /\ fw'.events # fw.events /\ fw'.event # "match") =>
              /\ fw'.timerCh = fw.timerCh
              /\ fw'.deadline = fw.deadline]_vars

\* Three events were received, the last a matching one, the timer expired
\* after it and onChange was called once for the new mtime.
C14_Witness ==
    /\ part = "file"
    /\ fw.events = MaxFsEvents /\ fw.event = "match"
    /\ fw.sinceEvent = 1 /\ fw.onChanges = 1
    /\ fw.lastModTime = fw.mtime /\ fw.writes > 0

\* ------------------------------------------------------------------ C15
\* C15: when the watched file existed as Watch started and its mtime has not
\* changed since, onChange has not been called, whatever events came.
C15_NoSpuriousChange ==
    (part = "file" /\ fw.existedAtStart /\ fw.writes = 0) => fw.onChanges = 0

\* The file existed at start and was never written; events for it were
\* received and the debounce timer has expired.
C15_Witness ==
    /\ part = "file"
    /\ fw.existedAtStart /\ fw.writes = 0
    /\ fw.event = "match" /\ ~fw.timerCh /\ fw.pc = "select"
    /\ fw.onChanges = 0

C16_OnChangeOnNewEvent ==
    /\ [][(part = "gpu" /\ gw'.polls # gw.polls) =>
              /\ gw'.onChanges \in {gw.onChanges, gw.onChanges + 1}
              /\ (gw'.onChanges = gw.onChanges + 1) <=>
                     /\ gw'.read = "value"
                     /\ gw.sample.ts > gw.seenTS
                     /\ gw.sample.v \in {DcgmBUEventStateSystemReinitializing,
                                         DcgmBUEventStateSystemReinitializationCompleted}]_vars
    /\ [][part = "gpu" => gw'.lastEventTS >= gw.lastEventTS]_vars
    /\ [](part = "gpu" =>
              /\ Len(gw.fired) = gw.onChanges
              /\ \A i, j \in 1..Len(gw.fired) : i < j => gw.fired[i] < gw.fired[j])

\* Three polls, two of which called onChange, and a value was read whose
\* timestamp lastEventTS did not take.
C16_Witness ==
    /\ part = "gpu"
    /\ gw.polls = 3 /\ gw.onChanges = 2
    /\ gw.read = "value" /\ gw.seenTS > gw.lastEventTS

\* ------------------------------------------------------------------ C17
\* C17: GPUBindUnbindWatcher.Watch releases what it acquired and nothing
\* else: nothing when FieldGroupCreate failed (and with the NVML error it
\* returns nil without a poll or an onChange), FieldGroupDestroy alone when
\* WatchFields failed, UnwatchFields and then FieldGroupDestroy, once each,
\* when it returns after a successful setup; nothing before it returns.
C17_ReleasesWhatItAcquired ==
    part = "gpu" =>
        IF gw.pc # "returned"
        THEN gw.released = <<>>
        ELSE /\ gw.deferred = <<>>
             /\ gw.ret \in {"nil", "createErr"} =>
                    gw.released = <<>> /\ gw.polls = 0 /\ gw.onChanges = 0
             /\ gw.ret = "watchErr" => gw.released = <<"destroy">>
             /\ gw.ret \notin {"nil", "createErr", "watchErr"} =>
                    gw.released = <<"unwatch", "destroy">>

\* Watch has returned after a successful setup and an onChange.
C17_Witness ==
    /\ part = "gpu"
    /\ gw.pc = "returned" /\ gw.ret = "ctxErr" /\ gw.onChanges > 0
    /\ gw.released = <<"unwatch", "destroy">>

\* ------------------------------------------------------------------ C18
\* C18: topologyChanged is symmetric, does not depend on the order of the
\* elements of either list, and is true exactly when the two lists differ as
\* multisets of UUIDs; for the lists WatchTopologyChanges compared at its
\* last poll, and with them the process has exited exactly when it is true.
Multiset(list) ==
    [u \in UUIDs |-> Cardinality({i \in 1..Len(list) : list[i] = u})]

C18_MultisetDifference ==
    (part = "topology" /\ tw.outcomes # <<>> /\ tw.outcomes[Len(tw.outcomes)] = "ok") =>
        LET old == tw.initialUUIDs
            new == tw.currentUUIDs
        IN  /\ topologyChanged(old, new) = topologyChanged(new, old)
            /\ topologyChanged(old, new) <=> (Multiset(old) # Multiset(new))
            /\ \A p \in UUIDLists :
                   Multiset(p) = Multiset(new) =>
                       /\ topologyChanged(old, p) = topologyChanged(old, new)
                       /\ topologyChanged(p, old) = topologyChanged(old, new)
            /\ (tw.exit = "changed") <=> topologyChanged(old, new)

\* Two lists of the same length with the same UUIDs in them, one of them
\* twice in each, were compared and found different.
C18_Witness ==
    /\ part = "topology"
    /\ tw.exit = "changed"
    /\ Len(tw.initialUUIDs) = 3 /\ Len(tw.currentUUIDs) = 3
    /\ {tw.initialUUIDs[i] : i \in 1..3} = {tw.currentUUIDs[i] : i \in 1..3}

\* ------------------------------------------------------------------ C19
\* C19: WatchTopologyChanges ends the process because of errors exactly at
\* the poll that is the third failed query in a row; a successful poll sets
\* the count of consecutive failures back to 0.
FailedRun(outcomes) ==
    LET fails == {n \in 0..Len(outcomes) :
                     \A i \in (Len(outcomes) - n + 1)..Len(outcomes) :
                         outcomes[i] = "failed"}
    IN  CHOOSE n \in fails : \A m \in fails : m <= n

C19_ExitOnThirdFailure ==
    part = "topology" =>
        /\ tw.consecutiveFailures = FailedRun(tw.outcomes)
        /\ (tw.exit = "errors") <=> (FailedRun(tw.outcomes) = 3)
        /\ tw.exit = "errors" => tw.pc = "exited"
        /\ \A k \in 1..(Len(tw.outcomes) - 1) :
               FailedRun(SubSeq(tw.outcomes, 1, k)) < 3

\* Two failures, a success, and then three failures in a row ended the process.
C19_Witness ==
    /\ part = "topology"
    /\ tw.exit = "errors"
    /\ tw.outcomes = <<"failed", "failed", "ok", "failed", "failed", "failed">>

\* ------------------------------------------------------------------ C20
\* C20: in every gather result that the transformation pipeline has run
\* over, all samples of the same counter have the same set of label keys.
C20_SameLabelKeys ==
    (part = "labels" /\ lbl.pc = "done") =>
        \A c \in MetricCounters :
            \A i, j \in 1..Len(lbl.metrics[c]) :
                Labels(lbl.maps, lbl.metrics[c][i]) = Labels(lbl.maps, lbl.metrics[c][j])

\* ------------------------------------------------------------------ C21
\* C21: once PodMapper has processed a gather, in any of its modes, every
\* sample has either none or all three of the attributes pod, namespace and
\* container, and likewise for their old names.
C21_AllOrNone ==
    (part = "labels" /\ lbl.stage > 1) =>
        \A m \in Samples(lbl.metrics) :
            /\ m.attrs \cap PodAttributes \in {{}, PodAttributes}
            /\ m.attrs \cap OldPodAttributes \in {{}, OldPodAttributes}

\* A gather went through PodMapper with a sample that got the three
\* attributes and one that got none.
C21_Witness ==
    /\ part = "labels"
    /\ lbl.stage > 1
    /\ \E m \in Samples(lbl.metrics) : OldPodAttributes \subseteq m.attrs
    /\ \E m \in Samples(lbl.metrics) : m.attrs = {}

\* ------------------------------------------------------------------ C22
\* C22: for each GPU index with MIG engine-active samples Weighted-Util emits
\* exactly one sample with the method weighted_sum, and its value is the sum
\* over those samples of engine_active * slices / maxSlices, slices being the
\* integer before "g." in the profile and maxSlices the GPU's MIG_MAX_SLICES
\* value, 7 without one.
Emitted == wu.metrics[WeightedTransformation]

InputSamples(c) == {wu.metrics[c][i] : i \in 1..Len(wu.metrics[c])}

LeadingInteger(profile) ==
    CHOOSE n \in 0..9 : profile # NoProfile => DigitChars[n + 1] = profile[1]

\* the sum over a set of samples of engine_active * slices
RECURSIVE SliceWeighted(_)
SliceWeighted(set) ==
    IF set = {} THEN 0
    ELSE LET m == CHOOSE x \in set : TRUE
         IN  m.value * LeadingInteger(m.MigProfile) + SliceWeighted(set \ {m})

MigSamples(g) == {m \in InputSamples(EngineActive) : m.gpu = g /\ m.MigProfile # NoProfile}

MaxSlicesOf(g) ==
    IF \E m \in InputSamples(MigMaxSlices) : m.gpu = g
    THEN (CHOOSE m \in InputSamples(MigMaxSlices) : m.gpu = g).value
    ELSE 7

C22_WeightedSum ==
    (part = "weighted" /\ wu.pc = "done") =>
        \A g \in Gpus :
            MigSamples(g) # {} =>
                LET out == {i \in 1..Len(Emitted) :
                                Emitted[i].gpu = g /\ Emitted[i].method = "weighted_sum"}
                IN  /\ Cardinality(out) = 1
                    /\ \A i \in out :
                           Emitted[i].value * MaxSlicesOf(g) =
                               SliceWeighted(MigSamples(g))

\* Two MIG instances of one GPU, of one and of three slices, both active,
\* on a GPU without a MIG_MAX_SLICES sample.
C22_Witness ==
    /\ part = "weighted"
    /\ wu.pc = "done"
    /\ \E g \in Gpus :
           /\ Cardinality(MigSamples(g)) = 2
           /\ {LeadingInteger(m.MigProfile) : m \in MigSamples(g)} = {1, 3}
           /\ \A m \in InputSamples(MigMaxSlices) : m.gpu # g

\* ------------------------------------------------------------------ C23
\* C23: every weighted-utilization sample with the method direct in a gather
\* has the value min(raw, 100) / 100, raw being the value of the GPU_UTIL
\* sample it was made of; so it lies between 0 and 1.
DirectSamples ==
    {m \in InputSamples(WeightedCollector) \cup InputSamples(WeightedTransformation) :
         m.method = "direct"}

RawOf(m) == wu.entities[m.from].util

C23_DirectIsCapped ==
    (part = "weighted" /\ wu.pc = "done") =>
        \A m \in DirectSamples :
            /\ m.value * 100 = (IF RawOf(m) > 100 THEN 100 ELSE RawOf(m)) * Scale
            /\ 0 <= m.value /\ m.value <= Scale

\* ------------------------------------------------------------------ C24
\* C24: for a GPU with an H-series model name that has an engine-active
\* sample without MIG profile, Weighted-Util emits that value unchanged with
\* the method prof_gr_engine_active and no direct sample; for every other
\* GPU with a GPU_UTIL sample it emits the direct sample.
NonMigActive(g) ==
    {m \in InputSamples(EngineActive) : m.gpu = g /\ m.MigProfile = NoProfile}

EmittedAs(g, method) ==
    {m \in InputSamples(WeightedTransformation) : m.gpu = g /\ m.method = method}

C24_HSeriesPassThrough ==
    (part = "weighted" /\ wu.pc = "done") =>
        \A g \in Gpus :
            IF wu.models[g] /\ NonMigActive(g) # {}
            THEN /\ \A a \in NonMigActive(g) :
                        \E m \in EmittedAs(g, "prof_gr_engine_active") :
                            m.value = a.value /\ m.from = a.from
                 /\ EmittedAs(g, "direct") = {}
            ELSE \A u \in InputSamples(GpuUtil) :
                     u.gpu = g => \E m \in EmittedAs(g, "direct") : m.from = u.from

\* ------------------------------------------------------------------ C25
\* C25: every sample Weighted-Util emits has the label DCGM_FI_DEV_UUID set
\* to the UUID of the physical GPU, and every weighted_sum sample has an
\* empty MIG profile and an empty GPU-instance id, with and without a
\* MIG_MAX_SLICES sample for the GPU.
C25_PhysicalGPUOnly ==
    (part = "weighted" /\ wu.pc = "done") =>
        \A m \in InputSamples(WeightedTransformation) :
            /\ m.uuidLabel = wu.entities[m.from].gpu
            /\ m.method = "weighted_sum" =>
                   m.MigProfile = NoProfile /\ m.GPUInstanceID = 0

\* ------------------------------------------------------------------ C26
\* C26: with filtering enabled shouldIncludeLabel(k) is true exactly when a
\* pattern that compiled matches k, on hits and on misses and after any
\* lookups and evictions; the cache never holds more than maxSize entries,
\* and its map and its list hold the same keys.
C26_CacheAgreesWithPatterns ==
    (part = "cache" /\ lc.pc = "ready") =>
        /\ (lc.enabled /\ lc.lookups > 0) =>
               (lc.last.result <=>
                    \E i \in 1..Len(lc.patterns) :
                        lc.patterns[i].ok /\ lc.last.key \in lc.patterns[i].matches)
        /\ Len(lc.lruList) <= lc.maxSize
        /\ Cardinality(lc.cache) <= lc.maxSize
        /\ lc.cache = {lc.lruList[i].key : i \in 1..Len(lc.lruList)}
        /\ Cardinality(lc.cache) = Len(lc.lruList)

\* A key is found in the cache after another one was evicted.
C26_Witness ==
    /\ part = "cache"
    /\ lc.enabled
    /\ lc.evictions > 0
    /\ lc.last.hit

\* ------------------------------------------------------------------ C27
IsSentinel(value) ==
    \/ value.FieldType = "DCGM_FT_INT64" /\ value.content \in Int64Sentinels
    \/ value.FieldType = "DCGM_FT_DOUBLE" /\ value.content \in Fp64Sentinels
    \/ value.FieldType = "DCGM_FT_STRING" /\ value.content \in StrSentinels

\* C27: a sentinel value gives no sample and no label value, whatever the
\* kind of the entity, and the value of a label counter is never a sample.
C27_SentinelSkipped ==
    (part = "collector" /\ col.pc = "done") =>
        /\ \A i \in 1..Len(col.vals) :
               IsSentinel(col.vals[i]) =>
                   /\ \A k \in 1..Len(col.metrics) : col.metrics[k].from # i
                   /\ \A l \in col.labels : l.from # i
        /\ \A k \in 1..Len(col.metrics) : col.metrics[k].Counter # ColLabel

\* ------------------------------------------------------------------ C28
\* The UUID a sample is looked up by, and the number of processes on it
LookupUUID(m) ==
    CASE m.label \in {LabelUUID} -> m.label
      [] m.label \notin {LabelUUID} /\ m.attribute \in {AttributeUUID} -> m.attribute
      [] OTHER -> m.GPUUUID

ProcessesOn(uuid) ==
    Cardinality({k \in 1..Len(pm.processes) :
                    uuid \in {pm.processes[k].UUID, pm.processes[k].ParentUUID}})

CopiesOf(list, m) ==
    {k \in 1..Len(list) : list[k].from = m.from}

InGetMetrics(r) == {s \in DOMAIN spc : spc[s] = "g_collect" /\ sreg[s] = r}

\* C29: when a registry's Cleanup calls its collectors' Cleanup, and at any
\* time after that, no Gather on that registry is inside a collector's
\* GetMetrics, whether the wait for the active gathers ended by itself or
\* by its time limit.
C29_NoGetMetricsAtCleanup ==
    \A r \in DOMAIN cleanups :
        (cleanups[r] > 0 \/ \E t \in DOMAIN pc : pc[t] = "c_clean" /\ loc[t].oldRegistry = r)
            => InGetMetrics(r) = {}

\* Cleanup has given up waiting while a gather is still inside GetMetrics:
\* the gather is counted in activeGathers and Cleanup is at its Lock().
C29_Witness ==
    \E t \in DOMAIN pc :
        /\ pc[t] = "c_lock"
        /\ activeGathers[loc[t].oldRegistry] > 0
        /\ InGetMetrics(loc[t].oldRegistry) # {}

\* ------------------------------------------------------------------ C30
\* C30 (as claimed): the reloads of both kinds share one rate limit: a hot
\* reload requested while no reload is in flight and at least
\* minReloadInterval after the last reload of either kind is performed, and
\* a reload of either kind requested less than minReloadInterval after the
\* last reload of either kind is not performed.
C30_SharedRateLimit ==
    (part = "ratelimit" /\ rl.req.kind # "none") =>
        /\ (/\ rl.req.kind = "hot"
            /\ ~rl.req.inFlight
            /\ (rl.req.prevAt = Nil \/ rl.req.at - rl.req.prevAt >= minReloadInterval))
               => rl.req.performed
        /\ (rl.req.prevAt # Nil /\ rl.req.at - rl.req.prevAt < minReloadInterval)
               => ~rl.req.performed

\* ------------------------------------------------------------------ C31
\* The places of the calls of one operation in the log of calls
Places(op) == {i \in 1..Len(dw.calls) : dw.calls[i].op = op}
GroupsOf(op) == {dw.calls[i].group : i \in Places(op)}
Before(a, b) == \A i \in Places(a), j \in Places(b) : i < j
AllGroups == 1..Len(dw.groups)

C32_FailureReleasesAll ==
    (part = "watchlist" /\ dw.pc = "failed") =>
        /\ GroupsOf("WatchFields") \subseteq GroupsOf("UnwatchFields")
        /\ Places("FieldGroupCreate") # {} => Places("FieldGroupDestroy") # {}
        /\ GroupsOf("CreateGroup") \subseteq GroupsOf("DestroyGroup")

\* ------------------------------------------------------------------ C33
\* The groups made for the i-th GPU, switch or CPU, and the entities in them
GroupsFor(i) == SelectSeq(dw.groups, LAMBDA g : g.parent = i)
EntitiesIn(i) == SumValues([g \in 1..Len(GroupsFor(i)) |-> GroupsFor(i)[g].size])
HasGroups == part = "watchlist" /\ dw.groups # <<>>

C34_NoSampleLost ==
    (part = "merge" /\ mg.returned) => mg.output = Collectors

\* ------------------------------------------------------------------ C35
\* The registries that were published at some time: the initial one, the
\* one the server holds, and those a later publish has replaced
EverPublished ==
    {0} \cup {r \in RegIds : r = serverRegistry \/ superseded[r]}

\* C35 (as claimed): when the process has shut down on a signal, Cleanup has
\* been called exactly once on every registry that was published, the one
\* that was current at the shutdown among them.
C35_CleanupOncePerRegistry ==
    (proc = "exited" /\ exitCause[1] = "shutdown") =>
        \A r \in EverPublished : cleanups[r] = 1

\* ------------------------------------------------------------------ C36
\* The Gather calls on registry r that have incremented its counter and
\* have not returned
Counted(r) ==
    {s \in DOMAIN spc : /\ sreg[s] = r
                        /\ spc[s] \in {"g_rlock", "g_check2", "g_collect",
                                       "g_runlock", "g_dec"}}

\* C36: the in-flight counter of a registry is the number of Gather calls
\* that have incremented it and not yet returned: never negative, and 0 when
\* no Gather runs, however the calls returned.
C36_CounterIsExact ==
    \A r \in DOMAIN activeGathers :
        /\ activeGathers[r] = Cardinality(Counted(r))
        /\ activeGathers[r] >= 0

\* A Gather that found the registry shutting down under the read lock is
\* about to decrement the counter it had incremented.
C36_Witness ==
    \E s \in DOMAIN spc :
        /\ spc[s] = "g_dec"
        /\ sres[s] = "shutdown"
        /\ activeGathers[sreg[s]] = 1

\* ------------------------------------------------------------------ C37
\* A hot reload on thread t has failed with an error and is returning: the
\* configuration could not be read, or the new registry could not be built.
HotFailed(t) == pc[t] = "h_unset" /\ result[t] = "err" /\ ~panicked[t]

\* The failed hot reload on thread t got as far as clearing the registry.
FailedInBuild(t) == HotFailed(t) /\ "clear" \in Range(loc[t].steps)

\* C37 (as claimed): when a hot reload fails, a registry is still published
\* and the reload has neither unpublished nor cleaned up the registry that
\* was published before it.
C37_FailedReloadKeepsRegistry ==
    \A t \in HotThreads :
        HotFailed(t) => /\ serverRegistry # Nil
                        /\ loc[t].oldRegistry = Nil

\* C37 (amended): a hot reload that fails because the configuration cannot
\* be read has neither unpublished nor cleaned up a registry; one that fails
\* because the new registry cannot be built has already unpublished the
\* registry that was published before it and called Cleanup on it, and has
\* published none.
C37_OnlyConfigFailureKeepsRegistry ==
    \A t \in HotThreads :
        HotFailed(t) =>
            IF FailedInBuild(t)
            THEN /\ loc[t].newRegistry = Nil
                 /\ loc[t].oldRegistry # Nil =>
                        /\ serverRegistry # loc[t].oldRegistry
                        /\ cleanups[loc[t].oldRegistry] >= 1
            ELSE /\ loc[t].oldRegistry = Nil
                 /\ loc[t].steps = <<"hot">>

\* A hot reload has failed in its build after it unpublished and cleaned up
\* the registry published before it, and no registry is published.
C37_Witness ==
    \E t \in HotThreads :
        /\ FailedInBuild(t)
        /\ loc[t].oldRegistry # Nil
        /\ cleanups[loc[t].oldRegistry] >= 1
        /\ serverRegistry = Nil

\* ------------------------------------------------------------------ C38
\* The shutdown has begun to stop the HTTP server (close(stop)) or is past it.
ServerStopBegun == proc = "stopped" \/ (proc = "exited" /\ exitCause[1] = "shutdown")

\* The shutdown has called dcgmCleanup, or is past the place of the call.
LibraryShutdown ==
    \/ pc["sig"] = "x_exit"
    \/ loc["sig"].steps = <<"shutdown">>

\* Thread t is inside hotReload or handleGPUTopologyChange.
InReload(t) ==
    \/ InFlight(t)
    \/ pc[t] \in {"h_check", "h_rate", "h_store", "h_set", "h_unset",
                  "t_bump", "t_rate", "t_store", "t_check", "t_queue", "t_set",
                  "t_unset"}

\* C38: on SIGINT, SIGTERM or SIGQUIT the server is stopped only after both
\* watcher threads have returned and the device library is cleaned up only
\* after the server has stopped: once the server stop has begun no hot or
\* topology reload is in flight on any thread, and none starts.
C38_NoReloadAfterServerStop ==
    /\ ServerStopBegun => /\ pc["file"] = "idle" /\ pc["gpu"] = "idle"
                          /\ \A t \in Reloaders : ~InReload(t)
    /\ LibraryShutdown => ServerStopBegun

\* The server is being stopped, after the watchers were waited for, in a run
\* in which the file watcher has called hotReload.
C38_Witness ==
    /\ proc = "stopped"
    /\ pc["sig"] = "x_dcgm"
    /\ result["file"] # "none"
    /\ hotReloadCounter >= 1

\* ------------------------------------------------------------------ C39
\* Every sample of list before has a sample of its device in list after.
EachSampleYieldsOne(before, after) ==
    \A i \in 1..Len(before) : \E j \in 1..Len(after) : after[j].gpu = before[i].gpu

\* C39: a step of PodMapper.Process that returns removes no sample from the
\* gather: for every counter, each sample it was given yields at least one
\* sample of its result, whatever the mode and whether or not the sample's
\* device is mapped to a pod.
C39_NoSampleRemoved ==
    [][(AtStage("PodMapper") /\ lbl'.pc # "panicked")
         => \A c \in MetricCounters : EachSampleYieldsOne(lbl.metrics[c], lbl'.metrics[c])]_vars

\* ------------------------------------------------------------------ C40
\* The weighted-utilization samples of GPU g in the result of the gather, by
\* counter and position: those the collector added and those the
\* transformation added.
WeightedSamplesOf(g, from) ==
    UNION {{<<c, i>> : i \in {j \in 1..Len(wu.metrics[c]) : wu.metrics[c][j].gpu = g}} :
             c \in from}

\* C40: in the result of one gather every physical GPU has at most one
\* DCGM_FI_DEV_WEIGHTED_GPU_UTIL sample, the samples of the collector's own
\* computation and those of the Weighted-Util stage counted together.
C40_OneWeightedSamplePerGpu ==
    (part = "weighted" /\ wu.pc = "done") =>
        \A g \in Gpus :
            Cardinality(WeightedSamplesOf(g, {WeightedCollector, WeightedTransformation})) <= 1

====
